---------------------------- MODULE Spec2Model ----------------------------
(***************************************************************************)
(* Autonomous change governance engine of santanu-p/ai-agent:              *)
(*   - the change-set lifecycle (deployment-controller.ts),                *)
(*   - the policy patch simulation (policy-engine.ts),                     *)
(*   - the capability guard (game/ai/policy_guard.h / .cpp).               *)
(* Each part has its own specification over the shared variables; the      *)
(* variables of the other parts stay at their idle values.                 *)
(***************************************************************************)
EXTENDS Integers, Sequences, FiniteSets, TLC

VARIABLES
  changeSet,   \* the AutonomousChangeSet value in hand, or NoChangeSet
  csLog,       \* history: the operations applied to it since createChangeSet
  store,       \* the InMemoryStore of the control plane: changeSets, agents, memories
  inflight,    \* the HTTP requests received: the call holding the event loop, the frames
  events,      \* history: the writes to the store and the dispatches, in order
  simInput,    \* the PolicySimulationInput of the simulatePolicyPatch call
  simResult,   \* the PolicySimulationResult it returned, or NoResult
  policy_,     \* PolicyGuard::policy_, the ExecutionPolicy in force, or NoGuard
  policyFile,  \* the policy source at policy_path_: readable or not, its lines
  auditLog,    \* the lines of the file at audit_log_path_
  files,       \* the marker files that exist on the local filesystem
  request,     \* the arguments of the EnforceBeforePatchDeployment call just
               \* made, or NoRequest once another operation has followed it
  decision,    \* the DeploymentDecision that call returned, or NoDecision
  denials,     \* history: the reasons of the denials returned by whole calls so far
  recorded,    \* what the caller of the last Record* call saw, or NoRecord
  recent,      \* the last RecentEntries call: its limit and what it returned
  reload,      \* the ReloadPolicy call in flight or just ended, or NoReload
  enforcing,   \* the EnforceBeforePatchDeployment call in flight, or NotEnforcing
  appending    \* the Audit calls in flight: what each has still to write, and
               \* whether the last line of the ledger file lacks its newline

storeVars == <<store, inflight, events>>
lifecycleVars == <<changeSet, csLog, storeVars>>
simVars == <<simInput, simResult>>
callVars == <<recorded, recent>>
threadVars == <<reload, enforcing, appending>>
guardVars == <<policy_, policyFile, auditLog, files, request, decision, denials,
               callVars, threadVars>>
vars == <<changeSet, csLog, store, inflight, events, simInput, simResult,
          policy_, policyFile, auditLog, files, request, decision, denials,
          recorded, recent, reload, enforcing, appending>>

(***************************************************************************)
(* Part 1. Change-set lifecycle.                                           *)
(* risk_score is a number in [0,1]; it is held in hundredths (30 = 0.30).  *)
(***************************************************************************)

\* hundredths of risk_score drawn as inputs: both sides of the 0.80 boundary
RiskScores == {0, 30, 79, 80, 81, 95, 100}

\* deployment-controller.ts:16, the literal 0.8 in hundredths
CanaryRiskLimit == 80

\* how many lifecycle calls are applied to one change-set
MaxOps == 4

NoChangeSet == [risk_score |-> -1, canary_result |-> "none", promotion_state |-> "none"]

createChangeSet(riskScore) ==
  [risk_score |-> riskScore, canary_result |-> "pending", promotion_state |-> "staged"]

evaluateCanary_inclusive(cs) ==
  LET canaryPassed == cs.risk_score <= CanaryRiskLimit
  IN  [cs EXCEPT !.canary_result = IF canaryPassed THEN "passed" ELSE "failed",
                 !.promotion_state = IF canaryPassed THEN "progressive" ELSE "rolled_back"]

evaluateCanary(cs) ==
  LET canaryPassed == cs.risk_score < CanaryRiskLimit
  IN  [cs EXCEPT !.canary_result = IF canaryPassed THEN "passed" ELSE "failed",
                 !.promotion_state = IF canaryPassed THEN "progressive" ELSE "rolled_back"]

promoteChangeSet_pendingOk(cs) ==
  IF cs.canary_result = "failed"
    THEN [cs EXCEPT !.promotion_state = "rolled_back"]
    ELSE [cs EXCEPT !.promotion_state = "promoted"]

promoteChangeSet_ignoresCanary(cs) ==
  [cs EXCEPT !.promotion_state = "promoted"]

promoteChangeSet(cs) ==
  IF cs.canary_result # "passed"
    THEN [cs EXCEPT !.promotion_state = "rolled_back"]
    ELSE [cs EXCEPT !.promotion_state = "promoted"]

\* the idle values of the simulation's variables
NoInput == [traces |-> <<>>,
            policy_patch |-> [asserted_constraint_ids |-> <<>>, objective_impacts |-> <<>>]]
NoResult == [recommendation |-> "none"]

SimIdle ==
  /\ simInput = NoInput
  /\ simResult = NoResult

\* how many change-sets the store can come to hold
MaxChangeSets == 2

StoreIds == 1..MaxChangeSets

\* the agent ids of the requests
AgentIds == {"agent-a", "agent-b"}

\* new InMemoryStore(): empty maps; an agent without a memories entry has <<>>
EmptyStore ==
  [changeSets |-> [id \in StoreIds |-> NoChangeSet], agents |-> {},
   memories |-> [agentId \in AgentIds |-> <<>>]]

NoCalls == [loop |-> 0, calls |-> <<>>]

StoreIdle ==
  /\ store = EmptyStore
  /\ inflight = NoCalls
  /\ events = <<>>

LifecycleIdle ==
  /\ changeSet = NoChangeSet
  /\ csLog = <<>>
  /\ StoreIdle

\* the idle values of the guard's variables: no PolicyGuard constructed
NoGuard == [writable_allow_prefixes |-> <<>>, writable_deny_prefixes |-> <<>>]
NoRequest == [touched_files |-> <<>>]
NoDecision == [allowed |-> FALSE, reason |-> <<"none">>]
NoFile == [readable |-> FALSE, lines |-> <<>>]
NoRecord == [op |-> "none"]
NoRecent == [limit |-> 0 - 1, entries |-> <<>>]
NoReload == [pc |-> "idle"]
NotEnforcing == [pc |-> "idle"]
\* the two threads that may be inside Audit at once
Writers == {1, 2}
NotAppending == [open |-> FALSE, writers |-> [w \in Writers |-> <<>>]]

CallsIdle ==
  /\ recorded = NoRecord
  /\ recent = NoRecent

ThreadsIdle ==
  /\ reload = NoReload
  /\ enforcing = NotEnforcing
  /\ appending = NotAppending

GuardIdle ==
  /\ CallsIdle
  /\ ThreadsIdle
  /\ policyFile = NoFile
  /\ policy_ = NoGuard
  /\ auditLog = <<>>
  /\ files = {}
  /\ request = NoRequest
  /\ decision = NoDecision
  /\ denials = {}

LifecycleInit ==
  /\ LifecycleIdle
  /\ SimIdle
  /\ GuardIdle

\* a caller creates a change-set (a fresh change_id: the history starts over)
CreateChangeSet ==
  \E r \in RiskScores :
    /\ changeSet' = createChangeSet(r)
    /\ csLog' = << [op |-> "create", cs |-> createChangeSet(r)] >>
    /\ UNCHANGED <<storeVars, simVars, guardVars>>

EvaluateCanary ==
  /\ changeSet # NoChangeSet
  /\ Len(csLog) <= MaxOps
  /\ changeSet' = evaluateCanary(changeSet)
  /\ csLog' = Append(csLog, [op |-> "evaluate", cs |-> evaluateCanary(changeSet)])
  /\ UNCHANGED <<storeVars, simVars, guardVars>>

PromoteChangeSet ==
  /\ changeSet # NoChangeSet
  /\ Len(csLog) <= MaxOps
  /\ changeSet' = promoteChangeSet(changeSet)
  /\ csLog' = Append(csLog, [op |-> "promote", cs |-> promoteChangeSet(changeSet)])
  /\ UNCHANGED <<storeVars, simVars, guardVars>>

LifecycleNext ==
  \/ CreateChangeSet
  \/ EvaluateCanary
  \/ PromoteChangeSet

SpecLifecycle == LifecycleInit /\ [][LifecycleNext]_vars

(***************************************************************************)
(* Claims about the change-set lifecycle.                                  *)
(***************************************************************************)

PromoteSteps == {i \in 2..Len(csLog) : csLog[i].op = "promote"}
EvaluateSteps == {i \in 2..Len(csLog) : csLog[i].op = "evaluate"}
TerminalStates == {"promoted", "rolled_back"}

\* C1: promoteChangeSet yields promoted iff canary_result was passed at the
\* call and rolled_back otherwise, whatever risk_score and the prior
\* promotion_state; so promoted implies canary_result = passed in every
\* reachable state.
C1_PromoteIffCanaryPassed ==
  /\ \A i \in PromoteSteps :
       /\ csLog[i].cs.promotion_state =
            IF csLog[i-1].cs.canary_result = "passed" THEN "promoted" ELSE "rolled_back"
       /\ csLog[i].cs.canary_result = csLog[i-1].cs.canary_result
       /\ csLog[i].cs.risk_score = csLog[i-1].cs.risk_score
  /\ \A i \in 1..Len(csLog) :
       csLog[i].cs.promotion_state = "promoted" => csLog[i].cs.canary_result = "passed"
  /\ changeSet.promotion_state = "promoted" => changeSet.canary_result = "passed"

\* a promote with the canary skipped (pending) and a promote after a pass,
\* both on one change-set
C1_Witness ==
  /\ \E i \in PromoteSteps :
       csLog[i-1].cs.canary_result = "pending" /\ csLog[i].cs.promotion_state = "rolled_back"
  /\ \E i \in PromoteSteps :
       /\ csLog[i-1].cs.canary_result = "passed"
       /\ csLog[i-1].cs.promotion_state = "progressive"
       /\ csLog[i].cs.promotion_state = "promoted"

\* C2: promoted and rolled_back are terminal: no later evaluateCanary or
\* promoteChangeSet call changes the promotion_state of a change-set that is
\* promoted or rolled_back.
C2_TerminalStatesAreFinal ==
  \A i \in 2..Len(csLog) :
    csLog[i-1].cs.promotion_state \in TerminalStates
      => csLog[i].cs.promotion_state = csLog[i-1].cs.promotion_state

\* C3: evaluateCanary passes iff risk_score < 0.80 (strictly): passed and
\* progressive below 0.80, failed and rolled_back from 0.80 on, whatever the
\* previous canary_result and promotion_state.
C3_CanaryIffRiskBelowLimit ==
  \A i \in EvaluateSteps :
    LET before == csLog[i-1].cs
        after == csLog[i].cs
    IN  /\ after.risk_score = before.risk_score
        /\ before.risk_score < 80
             => after.canary_result = "passed" /\ after.promotion_state = "progressive"
        /\ before.risk_score >= 80
             => after.canary_result = "failed" /\ after.promotion_state = "rolled_back"

\* evaluateCanary at exactly 0.80, once on the fresh change-set and once on
\* the change-set it has already failed and rolled back
C3_Witness ==
  /\ changeSet.risk_score = 80
  /\ \E i \in EvaluateSteps :
       csLog[i-1].cs.canary_result = "pending" /\ csLog[i].cs.canary_result = "failed"
  /\ \E i \in EvaluateSteps :
       csLog[i-1].cs.canary_result = "failed" /\ csLog[i].cs.promotion_state = "rolled_back"

\* C4: create -> evaluateCanary -> promoteChangeSet starts staged/pending and
\* ends promoted (through passed/progressive) when risk_score < 0.80, and
\* rolled_back (through failed/rolled_back) otherwise.
C4_CreateEvaluatePromote ==
  (/\ Len(csLog) >= 3
   /\ csLog[1].op = "create" /\ csLog[2].op = "evaluate" /\ csLog[3].op = "promote")
  => /\ csLog[1].cs.canary_result = "pending" /\ csLog[1].cs.promotion_state = "staged"
     /\ csLog[1].cs.risk_score < 80
          => /\ csLog[2].cs.canary_result = "passed"
             /\ csLog[2].cs.promotion_state = "progressive"
             /\ csLog[3].cs.promotion_state = "promoted"
     /\ csLog[1].cs.risk_score >= 80
          => /\ csLog[2].cs.canary_result = "failed"
             /\ csLog[2].cs.promotion_state = "rolled_back"
             /\ csLog[3].cs.promotion_state = "rolled_back"

\* the sequence has run to its end on the boundary risk_score 0.80
C4_Witness ==
  /\ Len(csLog) = 3
  /\ csLog[1].op = "create" /\ csLog[2].op = "evaluate" /\ csLog[3].op = "promote"
  /\ csLog[1].cs.risk_score = 80
  /\ changeSet.promotion_state = "rolled_back"

(***************************************************************************)
(* Part 2. Policy patch simulation (policy-engine.ts).                     *)
(*                                                                         *)
(* Numbers are exact fixed-point integers.  A dimension score 1.0 is       *)
(* ScoreUnit; the factor AverageGrain keeps the averages over up to four   *)
(* traces and the 0.8/0.2 fairness mix exact.  A composite is a sum of     *)
(* score * weight with the weights in hundredths, so 1.0 is                *)
(* ScoreUnit * WeightUnit there.  Reported numbers (toFixed(4)) are in     *)
(* ten-thousandths.  token_cost is in ten-thousandths, latency_ms in ms.   *)
(*                                                                         *)
(* The code computes in IEEE doubles.  Where the exact value lies strictly *)
(* between two ten-thousandths, toFixed(4) of the double is the nearer     *)
(* one; where it is exactly halfway, or exactly on the 0.7 threshold, the  *)
(* double's error decides, so the model takes either outcome (tieAway).    *)
(***************************************************************************)

\* toFixed(4): four decimals
TenThousand == 10000
AverageGrain == 2 * 3 * 4 * 5
ScoreUnit == TenThousand * AverageGrain
\* the weights are held in hundredths
WeightUnit == 100
CompositeUnit == ScoreUnit * WeightUnit

\* a decimal given in ten-thousandths, as a score
Score(tenThousandths) == tenThousandths * AverageGrain

NON_NEGOTIABLE_CONSTRAINTS ==
  << "safety.no_save_corruption", "product.no_pay_to_win_drift", "fairness.no_hidden_nerfs" >>

\* 0.7, in ten-thousandths
MINIMUM_RELEASE_THRESHOLD == 7000

Dimensions == << "fairness", "latency", "exploit_risk", "economy_stability", "reliability" >>
DimensionSet == {Dimensions[i] : i \in 1..Len(Dimensions)}

\* the weights, in hundredths
DIMENSION_WEIGHTS ==
  [fairness |-> 25, latency |-> 20, exploit_risk |-> 20, economy_stability |-> 20,
   reliability |-> 15]

Max(a, b) == IF a >= b THEN a ELSE b
Min(a, b) == IF a <= b THEN a ELSE b

clampScore_noLowerBound(value) == Min(ScoreUnit, value)

clampScore(value) == Max(0, Min(ScoreUnit, value))

\* Number(x.toFixed(4)) of x given in units of 1/unit: the nearest
\* ten-thousandth; an exact tie goes away from zero or toward it (tieAway)
ToFixed4(x, unit, tieAway) ==
  LET q == unit \div TenThousand
      mag == IF x < 0 THEN 0 - x ELSE x
      n == IF tieAway THEN (2 * mag + q) \div (2 * q)
                      ELSE (2 * mag + q - 1) \div (2 * q)
  IN  IF x < 0 THEN 0 - n ELSE n

toFixedScore(value, tieAway) == ToFixed4(clampScore(value), ScoreUnit, tieAway)

RECURSIVE SumSeq(_)
SumSeq(values) ==
  IF values = <<>> THEN 0 ELSE Head(values) + SumSeq(Tail(values))

average(values) ==
  IF Len(values) = 0 THEN 0 ELSE SumSeq(values) \div Len(values)

\* /exec|shell|network|write/i.test(tool) on the tool names in use
DangerousToolNames == {"shell.exec", "fs.WriteFile", "network.fetch"}
SafeToolNames == {"tool1"}
IsDangerousTool(tool) == tool \in DangerousToolNames

RECURSIVE CountDangerous(_)
CountDangerous(tool_calls) ==
  IF tool_calls = <<>> THEN 0
  ELSE (IF IsDangerousTool(Head(tool_calls)) THEN 1 ELSE 0) + CountDangerous(Tail(tool_calls))

OutcomeScore(trace) ==
  IF trace.outcome = "success" THEN ScoreUnit
  ELSE IF trace.outcome = "partial" THEN Score(5000) ELSE 0

LatencyBand(trace) ==
  IF trace.latency_ms <= 2000 THEN ScoreUnit
  ELSE IF trace.latency_ms <= 6000 THEN Score(9000)
  ELSE IF trace.latency_ms <= 15000 THEN Score(7500)
  ELSE Score(5500)

ExploitRisk(trace) ==
  clampScore(Score(9500) - CountDangerous(trace.tool_calls) * Score(800))

\* 1 - token_cost / 10, token_cost in ten-thousandths
EconomyStability(trace) ==
  clampScore(ScoreUnit - trace.token_cost * (AverageGrain \div 10))

Reliability(trace) ==
  IF trace.outcome = "failure" THEN Score(3500)
  ELSE IF trace.outcome = "partial" THEN Score(6500)
  ELSE IF trace.steps > 8 THEN Score(8000)
  ELSE Score(9500)

MapSeq(Op(_), seq) == [i \in 1..Len(seq) |-> Op(seq[i])]

\* the averages of lines 116-157, taken over the traces
baselineFromTraces(traces) ==
  LET successRate == average(MapSeq(OutcomeScore, traces))
      latencyScore == average(MapSeq(LatencyBand, traces))
      exploitRiskScore == average(MapSeq(ExploitRisk, traces))
      economyStabilityScore == average(MapSeq(EconomyStability, traces))
      reliabilityScore == average(MapSeq(Reliability, traces))
      fairnessScore == clampScore((successRate * 8 + reliabilityScore * 2) \div 10)
  IN  [fairness |-> fairnessScore,
       latency |-> latencyScore,
       exploit_risk |-> exploitRiskScore,
       economy_stability |-> economyStabilityScore,
       reliability |-> reliabilityScore]

baselineDimensionScores_noEmptyCase(traces) == baselineFromTraces(traces)

baselineDimensionScores(traces) ==
  IF Len(traces) = 0
    THEN [d \in DimensionSet |-> Score(8000)]
    ELSE baselineFromTraces(traces)

RECURSIVE WeightedSum(_, _)
WeightedSum(scores, dims) ==
  IF dims = <<>> THEN 0
  ELSE scores[Head(dims)] * DIMENSION_WEIGHTS[Head(dims)] + WeightedSum(scores, Tail(dims))

weightedComposite(scores) == WeightedSum(scores, Dimensions)

RECURSIVE FilterMissing(_, _)
FilterMissing(ids, asserted) ==
  IF ids = <<>> THEN <<>>
  ELSE (IF Head(ids) \in asserted THEN <<>> ELSE <<Head(ids)>>)
         \o FilterMissing(Tail(ids), asserted)

\* an id counts as asserted only at its own position of the list
validateNonNegotiables_byPosition(policyPatch) ==
  LET ids == policyPatch.asserted_constraint_ids
      asserted == {NON_NEGOTIABLE_CONSTRAINTS[i] :
                     i \in {j \in 1..Len(NON_NEGOTIABLE_CONSTRAINTS) :
                              j <= Len(ids) /\ ids[j] = NON_NEGOTIABLE_CONSTRAINTS[j]}}
  IN  FilterMissing(NON_NEGOTIABLE_CONSTRAINTS, asserted)

validateNonNegotiables_anyAsserted(policyPatch) ==
  LET asserted == {policyPatch.asserted_constraint_ids[i] :
                     i \in 1..Len(policyPatch.asserted_constraint_ids)}
  IN  IF \E i \in 1..Len(NON_NEGOTIABLE_CONSTRAINTS) : NON_NEGOTIABLE_CONSTRAINTS[i] \in asserted
        THEN <<>>
        ELSE NON_NEGOTIABLE_CONSTRAINTS

validateNonNegotiables(policyPatch) ==
  LET asserted == {policyPatch.asserted_constraint_ids[i] :
                     i \in 1..Len(policyPatch.asserted_constraint_ids)}
  IN  FilterMissing(NON_NEGOTIABLE_CONSTRAINTS, asserted)

\* objectiveImpacts is a partial map: a dimension it does not list has impact 0
ImpactOf(objectiveImpacts, dimension) ==
  IF dimension \in DOMAIN objectiveImpacts THEN objectiveImpacts[dimension] ELSE 0

computePatchScores(baselineScores, objectiveImpacts) ==
  [d \in DimensionSet |-> clampScore(baselineScores[d] + Score(ImpactOf(objectiveImpacts, d)))]

buildDimensionScores(baselineScores, patchScores, tieAway) ==
  [d \in DimensionSet |->
     LET baseline == toFixedScore(baselineScores[d], tieAway)
         patch == toFixedScore(patchScores[d], tieAway)
     IN  [baseline |-> baseline,
          patch |-> patch,
          delta |-> ToFixed4(patch - baseline, TenThousand, tieAway),
          weight |-> DIMENSION_WEIGHTS[d]]]

Recommendation_constraintsOnly(blockers, violatedConstraints) ==
  IF Len(violatedConstraints) = 0 THEN "approve" ELSE "reject"

Recommendation(blockers, violatedConstraints) ==
  IF Len(blockers) = 0 THEN "approve" ELSE "reject"

ProjectedDelta_truncated(patchScore, baselineScore, tieAway) ==
  (patchScore - baselineScore) \div (CompositeUnit \div TenThousand)

ProjectedDelta(patchScore, baselineScore, tieAway) ==
  ToFixed4(patchScore - baselineScore, CompositeUnit, tieAway)

\* the threshold compared with the score as it is reported, rounded
BelowReleaseThreshold_reported(patchScore, tieAway) ==
  ToFixed4(patchScore, CompositeUnit, tieAway) < MINIMUM_RELEASE_THRESHOLD

\* patchScore < MINIMUM_RELEASE_THRESHOLD
BelowReleaseThreshold(patchScore, tieAway) ==
  LET threshold == MINIMUM_RELEASE_THRESHOLD * (CompositeUnit \div TenThousand)
  IN  patchScore < threshold \/ (patchScore = threshold /\ ~tieAway)

simulatePolicyPatch(input, tieAway) ==
  LET baselineDimension == baselineDimensionScores(input.traces)
      patchDimension ==
        computePatchScores(baselineDimension, input.policy_patch.objective_impacts)
      baselineScore == weightedComposite(baselineDimension)
      patchScore == weightedComposite(patchDimension)
      projectedDelta == ProjectedDelta(patchScore, baselineScore, tieAway)
      violatedConstraints == validateNonNegotiables(input.policy_patch)
      blockers ==
        (IF projectedDelta < 0
           THEN << <<"patch regresses simulated composite score">> >> ELSE <<>>)
        \o (IF BelowReleaseThreshold(patchScore, tieAway)
              THEN << <<"projected score below minimum release threshold">> >> ELSE <<>>)
        \o (IF Len(violatedConstraints) > 0
              THEN << <<"non-negotiable constraint violations: ">> \o violatedConstraints >>
              ELSE <<>>)
  IN  [baseline_score |-> ToFixed4(baselineScore, CompositeUnit, tieAway),
       patch_score |-> ToFixed4(patchScore, CompositeUnit, tieAway),
       projected_delta |-> projectedDelta,
       dimension_scores |-> buildDimensionScores(baselineDimension, patchDimension, tieAway),
       violated_constraints |-> violatedConstraints,
       blockers |-> blockers,
       recommendation |-> Recommendation(blockers, violatedConstraints)]

(* Inputs of a simulatePolicyPatch call. *)

\* how many traces a call passes
MaxTraces == 2

\* the trace of the tests; a failed and slow trace with twelve dangerous tool
\* calls and a negative token_cost; a partial trace with a token_cost of
\* 1.9983; a successful trace of nine steps with a token_cost of 0.0011
TraceSet ==
  { [outcome |-> "success", latency_ms |-> 1200, tool_calls |-> <<"tool1">>,
     token_cost |-> 12000, steps |-> 1],
    [outcome |-> "failure", latency_ms |-> 20000,
     tool_calls |-> [i \in 1..12 |-> IF i % 2 = 0 THEN "shell.exec" ELSE "network.fetch"],
     token_cost |-> 0 - 50000, steps |-> 3],
    [outcome |-> "partial", latency_ms |-> 6000, tool_calls |-> <<"shell.exec", "tool1", "fs.WriteFile">>,
     token_cost |-> 19983, steps |-> 9],
    [outcome |-> "success", latency_ms |-> 15000, tool_calls |-> <<>>,
     token_cost |-> 11, steps |-> 9] }

TraceLists == UNION {[1..n -> TraceSet] : n \in 0..MaxTraces}

\* impacts in ten-thousandths: 0.0001, 0.05 and 2.0, of both signs, and 0
ImpactValues == {0 - 20000, 0 - 500, 0 - 1, 0, 1, 500, 20000}

\* the impacts of the approving test (policy-engine.test.ts:26-32)
TestImpacts ==
  [fairness |-> 800, latency |-> 300, exploit_risk |-> 400, economy_stability |-> 200,
   reliability |-> 500]

\* a reliability impact of -0.6667: on the default baseline of 0.8 the patch
\* composite is 0.699995
ThresholdImpacts == [d \in {"reliability"} |-> 0 - 6667]

\* no dimension listed, one dimension listed, all dimensions with one value
ImpactMaps ==
  {<<>>, TestImpacts, ThresholdImpacts}
    \cup {[d \in {dim} |-> v] : dim \in DimensionSet, v \in ImpactValues}
    \cup {[d \in DimensionSet |-> v] : v \in ImpactValues}

\* every subset of the non-negotiable ids in the order of the constant; the
\* full list reversed; a duplicate; an id that is not a non-negotiable one;
\* two ids out of order with a duplicate and an unlisted id between them
AssertedLists ==
  {FilterMissing(NON_NEGOTIABLE_CONSTRAINTS, missing) :
     missing \in SUBSET {NON_NEGOTIABLE_CONSTRAINTS[i] : i \in 1..3}}
    \cup { << "fairness.no_hidden_nerfs", "product.no_pay_to_win_drift", "safety.no_save_corruption" >>,
           << "safety.no_save_corruption", "safety.no_save_corruption" >>,
           << "extra.unlisted_constraint" >>,
           << "fairness.no_hidden_nerfs", "extra.unlisted_constraint",
              "fairness.no_hidden_nerfs", "safety.no_save_corruption" >> }

SimInputs ==
  [traces : TraceLists,
   policy_patch : [asserted_constraint_ids : AssertedLists, objective_impacts : ImpactMaps]]

SimInit ==
  /\ LifecycleIdle
  /\ GuardIdle
  /\ simInput \in SimInputs
  /\ simResult = NoResult

SimulatePolicyPatch ==
  /\ \E tieAway \in BOOLEAN : simResult' = simulatePolicyPatch(simInput, tieAway)
  /\ UNCHANGED <<simInput, lifecycleVars, guardVars>>

SimNext == SimulatePolicyPatch

SpecSimulate == SimInit /\ [][SimNext]_vars

(***************************************************************************)
(* Claims about the policy patch simulation.                               *)
(***************************************************************************)

Simulated == simResult # NoResult
Range(seq) == {seq[i] : i \in 1..Len(seq)}
NonNegotiableIds == Range(NON_NEGOTIABLE_CONSTRAINTS)
AssertedIds == Range(simInput.policy_patch.asserted_constraint_ids)
ViolationBlockers ==
  {b \in Range(simResult.blockers) : Head(b) = "non-negotiable constraint violations: "}

\* C5: recommendation is approve iff blockers is empty and reject otherwise;
\* needs_review is never produced.
C5_ApproveIffNoBlockers ==
  Simulated =>
    /\ simResult.recommendation \in {"approve", "reject"}
    /\ simResult.recommendation = "approve" <=> simResult.blockers = <<>>

\* a rejection that rests on a score blocker alone: every non-negotiable id
\* is asserted
C5_Witness ==
  /\ Simulated
  /\ simResult.recommendation = "reject"
  /\ simResult.violated_constraints = <<>>
  /\ simResult.blockers # <<>>

\* C6: a non-negotiable id missing from asserted_constraint_ids is in
\* violated_constraints, blockers holds the violation message naming it, and
\* recommendation is reject, also when projected_delta is positive.
C6_MissingConstraintRejects ==
  Simulated =>
    \A id \in NonNegotiableIds \ AssertedIds :
      /\ id \in Range(simResult.violated_constraints)
      /\ \E b \in ViolationBlockers : id \in Range(Tail(b))
      /\ simResult.recommendation = "reject"

\* exactly one id is missing, the composite rises, and the only blocker is the
\* violation message
C6_Witness ==
  /\ Simulated
  /\ Cardinality(NonNegotiableIds \ AssertedIds) = 1
  /\ simResult.projected_delta > 0
  /\ Len(simResult.blockers) = 1
  /\ simResult.recommendation = "reject"

\* the composites before rounding, of the input in hand
BaselineComposite == weightedComposite(baselineDimensionScores(simInput.traces))
PatchComposite ==
  weightedComposite(computePatchScores(baselineDimensionScores(simInput.traces),
                                       simInput.policy_patch.objective_impacts))
Abs(x) == IF x < 0 THEN 0 - x ELSE x

\* C7 as stated: the reported projected_delta equals the reported patch_score
\* minus the reported baseline_score.
C7_DeltaIsDifferenceOfReported ==
  Simulated =>
    simResult.projected_delta = simResult.patch_score - simResult.baseline_score

\* C7 as amended: projected_delta is the difference of the composites before
\* rounding, rounded to four decimals (at most half a ten-thousandth from
\* it); it is within one ten-thousandth of the difference of the reported
\* scores.
C7_DeltaIsRoundedDifference ==
  Simulated =>
    /\ 2 * Abs(simResult.projected_delta * (CompositeUnit \div TenThousand)
                 - (PatchComposite - BaselineComposite))
         <= CompositeUnit \div TenThousand
    /\ Abs(simResult.projected_delta - (simResult.patch_score - simResult.baseline_score)) <= 1

\* the two composites round apart although they differ by less than half a
\* ten-thousandth
C7_Witness ==
  /\ Simulated
  /\ simResult.projected_delta = 0
  /\ simResult.patch_score = simResult.baseline_score + 1

NoImpact ==
  \A d \in DOMAIN simInput.policy_patch.objective_impacts :
    simInput.policy_patch.objective_impacts[d] = 0

\* C9: with no traces every dimension's baseline is 0.8 and so is the
\* composite; with all three ids asserted and impacts all zero or omitted the
\* result is baseline = patch = 0.8, delta 0, no blockers, approve.
C9_EmptyTracesDefault ==
  (Simulated /\ simInput.traces = <<>>) =>
    /\ \A d \in DimensionSet : simResult.dimension_scores[d].baseline = 8000
    /\ simResult.baseline_score = 8000
    /\ (NonNegotiableIds \subseteq AssertedIds /\ NoImpact) =>
         /\ simResult.patch_score = 8000
         /\ simResult.projected_delta = 0
         /\ simResult.blockers = <<>>
         /\ simResult.violated_constraints = <<>>
         /\ simResult.recommendation = "approve"

\* the scenario itself, with the impact of every dimension given as 0
C9_Witness ==
  /\ Simulated
  /\ simInput.traces = <<>>
  /\ NonNegotiableIds \subseteq AssertedIds
  /\ DOMAIN simInput.policy_patch.objective_impacts = DimensionSet
  /\ NoImpact
  /\ simResult.recommendation = "approve"

(***************************************************************************)
(* Part 3. Capability guard (game/ai/policy_guard.h and policy_guard.cpp). *)
(* A path or a prefix is the sequence of its characters.  A domain or a    *)
(* marker file name is only ever compared whole and is a TLA+ string.      *)
(* regression_score and max_regression_threshold are in ten-thousandths.   *)
(***************************************************************************)

StartsWith(value, prefix) ==
  /\ Len(value) >= Len(prefix)
  /\ SubSeq(value, 1, Len(prefix)) = prefix

\* the C++ standard libraries the guard can be built with
StdLibs == {"libstdc++", "libc++"}

RECURSIVE CollapseSeparators(_)
CollapseSeparators(s) ==
  IF Len(s) < 2 THEN s
  ELSE IF s[1] = "/" /\ s[2] = "/" THEN CollapseSeparators(Tail(s))
  ELSE <<s[1]>> \o CollapseSeparators(Tail(s))

\* std::filesystem::path::generic_string(): libstdc++ rebuilds the string
\* from the path's elements, which turns a run of separators into one "/";
\* libc++ on POSIX returns the path as it was given
generic_string(path, stdlib) ==
  IF stdlib = "libstdc++" THEN CollapseSeparators(path) ELSE path

RECURSIVE Digits(_)
Digits(n) ==
  LET digit == <<"0", "1", "2", "3", "4", "5", "6", "7", "8", "9">>[(n % 10) + 1]
  IN  IF n < 10 THEN <<digit>> ELSE Digits(n \div 10) \o <<digit>>

\* std::to_string(int)
to_string(n) == IF n < 0 THEN <<"-">> \o Digits(0 - n) ELSE Digits(n)

\* the value of std::string reason while no check has written to it
EmptyReason == <<>>

\* allow loop first: a path under an allow-prefix never reaches the deny loop
IsWritablePathAllowed_allowFirst(policy, path, stdlib) ==
  LET path_str == generic_string(path, stdlib)
      allow == policy.writable_allow_prefixes
      deny == policy.writable_deny_prefixes
  IN  IF \E i \in DOMAIN allow : StartsWith(path_str, allow[i])
        THEN [ok |-> TRUE, reason |-> EmptyReason]
      ELSE IF \E i \in DOMAIN deny : StartsWith(path_str, deny[i])
        THEN [ok |-> FALSE, reason |-> <<"write denied for path: ">> \o path_str]
      ELSE [ok |-> FALSE, reason |-> <<"write outside allowed scope: ">> \o path_str]

IsWritablePathAllowed(policy, path, stdlib) ==
  LET path_str == generic_string(path, stdlib)
      allow == policy.writable_allow_prefixes
      deny == policy.writable_deny_prefixes
  IN  IF \E i \in DOMAIN deny : StartsWith(path_str, deny[i])
        THEN [ok |-> FALSE, reason |-> <<"write denied for path: ">> \o path_str]
      ELSE IF \E i \in DOMAIN allow : StartsWith(path_str, allow[i])
        THEN [ok |-> TRUE, reason |-> EmptyReason]
      ELSE [ok |-> FALSE, reason |-> <<"write outside allowed scope: ">> \o path_str]

\* an allowed-domain entry "*" taken as a wildcard that matches every domain
IsNetworkAllowed_wildcard(policy, domain, port) ==
  IF domain = <<>>
    THEN [ok |-> TRUE, reason |-> EmptyReason]
  ELSE IF ~\E i \in DOMAIN policy.allowed_domains :
             policy.allowed_domains[i] \in {domain[1], "*"}
    THEN [ok |-> FALSE, reason |-> <<"domain not allowed: ", domain[1]>>]
  ELSE IF ~\E i \in DOMAIN policy.allowed_ports : policy.allowed_ports[i] = port
    THEN [ok |-> FALSE, reason |-> <<"port not allowed: ">> \o to_string(port)]
  ELSE [ok |-> TRUE, reason |-> EmptyReason]

\* domain is a std::optional: <<>> is nullopt, <<d>> holds d
IsNetworkAllowed(policy, domain, port) ==
  IF domain = <<>>
    THEN [ok |-> TRUE, reason |-> EmptyReason]
  ELSE IF ~\E i \in DOMAIN policy.allowed_domains : policy.allowed_domains[i] = domain[1]
    THEN [ok |-> FALSE, reason |-> <<"domain not allowed: ", domain[1]>>]
  ELSE IF ~\E i \in DOMAIN policy.allowed_ports : policy.allowed_ports[i] = port
    THEN [ok |-> FALSE, reason |-> <<"port not allowed: ">> \o to_string(port)]
  ELSE [ok |-> TRUE, reason |-> EmptyReason]

AreResourcesAllowed(policy, cpu_percent, ram_mb, runtime_seconds) ==
  IF cpu_percent > policy.limits.max_cpu_percent
    THEN [ok |-> FALSE, reason |-> <<"cpu request exceeds max policy">>]
  ELSE IF ram_mb > policy.limits.max_ram_mb
    THEN [ok |-> FALSE, reason |-> <<"ram request exceeds max policy">>]
  ELSE IF runtime_seconds > policy.limits.max_time_seconds
    THEN [ok |-> FALSE, reason |-> <<"runtime request exceeds max policy">>]
  ELSE [ok |-> TRUE, reason |-> EmptyReason]

\* A ledger line and every text written into it is a sequence of tokens:
\* the double quote, the colon, the comma and the braces are tokens of
\* their own, a run of other characters is one token.
Quote == "\""

\* "key":"value"
Member(key, value) == <<Quote, key, Quote, ":", Quote>> \o value \o <<Quote>>

\* line.find(needle), the first position of needle in line, 0 for npos
FindFrom(line, needle, from) ==
  LET hits == {i \in from..(Len(line) - Len(needle) + 1) :
                 SubSeq(line, i, i + Len(needle) - 1) = needle}
  IN  IF hits = {} THEN 0 ELSE CHOOSE i \in hits : \A j \in hits : i <= j

Find(line, needle) == FindFrom(line, needle, 1) # 0

\* a count over a window: only the last line of the ledger is looked at
CountRecentFailedDeployments_lastLine(log) ==
  Cardinality({i \in DOMAIN log :
                 /\ i = Len(log)
                 /\ Find(log[i], Member("action", <<"applied">>))
                 /\ Find(log[i], Member("success", <<"false">>))})

CountRecentFailedDeployments(log) ==
  Cardinality({i \in DOMAIN log :
                 /\ Find(log[i], Member("action", <<"applied">>))
                 /\ Find(log[i], Member("success", <<"false">>))})

\* a breaker that latches: once it has denied for the marker or for the
\* regression score it stays open
IsCircuitBreakerOpen_sticky(policy, regression_score, log, existing) ==
  IF /\ policy.circuit_breakers.emergency_disable_file # ""
     /\ \/ policy.circuit_breakers.emergency_disable_file \in existing
        \/ "autonomy disabled by local emergency switch" \in denials
    THEN [open |-> TRUE, reason |-> <<"autonomy disabled by local emergency switch">>]
  ELSE IF CountRecentFailedDeployments(log) >= policy.circuit_breakers.max_failed_deployments
    THEN [open |-> TRUE, reason |-> <<"circuit breaker open: too many failed deployments">>]
  ELSE IF \/ regression_score > policy.circuit_breakers.max_regression_threshold
          \/ "circuit breaker open: regression threshold exceeded" \in denials
    THEN [open |-> TRUE, reason |-> <<"circuit breaker open: regression threshold exceeded">>]
  ELSE [open |-> FALSE, reason |-> EmptyReason]

\* the emergency marker looked at last, after the count and the regression
IsCircuitBreakerOpen_markerLast(policy, regression_score, log, existing) ==
  IF CountRecentFailedDeployments(log) >= policy.circuit_breakers.max_failed_deployments
    THEN [open |-> TRUE, reason |-> <<"circuit breaker open: too many failed deployments">>]
  ELSE IF regression_score > policy.circuit_breakers.max_regression_threshold
    THEN [open |-> TRUE, reason |-> <<"circuit breaker open: regression threshold exceeded">>]
  ELSE IF /\ policy.circuit_breakers.emergency_disable_file # ""
          /\ policy.circuit_breakers.emergency_disable_file \in existing
    THEN [open |-> TRUE, reason |-> <<"autonomy disabled by local emergency switch">>]
  ELSE [open |-> FALSE, reason |-> EmptyReason]

IsCircuitBreakerOpen(policy, regression_score, log, existing) ==
  IF /\ policy.circuit_breakers.emergency_disable_file # ""
     /\ policy.circuit_breakers.emergency_disable_file \in existing
    THEN [open |-> TRUE, reason |-> <<"autonomy disabled by local emergency switch">>]
  ELSE IF CountRecentFailedDeployments(log) >= policy.circuit_breakers.max_failed_deployments
    THEN [open |-> TRUE, reason |-> <<"circuit breaker open: too many failed deployments">>]
  ELSE IF regression_score > policy.circuit_breakers.max_regression_threshold
    THEN [open |-> TRUE, reason |-> <<"circuit breaker open: regression threshold exceeded">>]
  ELSE [open |-> FALSE, reason |-> EmptyReason]

\* the resource check moved in front of the network check
EnforceBeforePatchDeployment_resourcesFirst(policy, req, log, existing, stdlib) ==
  LET pathCheck(i) == IsWritablePathAllowed(policy, req.touched_files[i], stdlib)
      failing == {i \in DOMAIN req.touched_files : ~pathCheck(i).ok}
      first == CHOOSE i \in failing : \A j \in failing : i <= j
      network == IsNetworkAllowed(policy, req.outbound_domain, req.outbound_port)
      resources == AreResourcesAllowed(policy, req.requested_cpu_percent,
                                       req.requested_ram_mb, req.requested_runtime_seconds)
      breaker == IsCircuitBreakerOpen(policy, req.regression_score, log, existing)
  IN  IF failing # {} THEN [allowed |-> FALSE, reason |-> pathCheck(first).reason]
      ELSE IF ~resources.ok THEN [allowed |-> FALSE, reason |-> resources.reason]
      ELSE IF ~network.ok THEN [allowed |-> FALSE, reason |-> network.reason]
      ELSE IF breaker.open THEN [allowed |-> FALSE, reason |-> breaker.reason]
      ELSE [allowed |-> TRUE, reason |-> <<"allowed">>]

EnforceBeforePatchDeployment(policy, req, log, existing, stdlib) ==
  LET pathCheck(i) == IsWritablePathAllowed(policy, req.touched_files[i], stdlib)
      failing == {i \in DOMAIN req.touched_files : ~pathCheck(i).ok}
      first == CHOOSE i \in failing : \A j \in failing : i <= j
      network == IsNetworkAllowed(policy, req.outbound_domain, req.outbound_port)
      resources == AreResourcesAllowed(policy, req.requested_cpu_percent,
                                       req.requested_ram_mb, req.requested_runtime_seconds)
      breaker == IsCircuitBreakerOpen(policy, req.regression_score, log, existing)
  IN  IF failing # {} THEN [allowed |-> FALSE, reason |-> pathCheck(first).reason]
      ELSE IF ~network.ok THEN [allowed |-> FALSE, reason |-> network.reason]
      ELSE IF ~resources.ok THEN [allowed |-> FALSE, reason |-> resources.reason]
      ELSE IF breaker.open THEN [allowed |-> FALSE, reason |-> breaker.reason]
      ELSE [allowed |-> TRUE, reason |-> <<"allowed">>]

\* what the filesystem does to an Audit call: the line is written; the
\* ledger file cannot be opened; its directory cannot be created
IoOutcomes == {"written", "open fails", "create_directories throws"}

RECURSIVE FieldMembers(_)
FieldMembers(fields) ==
  IF fields = <<>> THEN <<>>
  ELSE <<",">> \o Member(fields[1][1], fields[1][2]) \o FieldMembers(Tail(fields))

\* the line Audit streams into the file; fields come in std::map key order
AuditLine(timestamp, action_text, change_id, fields) ==
  <<"{">> \o Member("timestamp", timestamp)
         \o <<",">> \o Member("action", <<action_text>>)
         \o <<",">> \o Member("change_id", change_id)
         \o FieldMembers(fields) \o <<"}">>

\* Audit: the ledger after the call and how the call ended.  When the file
\* cannot be opened the method returns without writing; a failing
\* std::filesystem::create_directories throws std::filesystem::filesystem_error.
Audit(log, io, timestamp, action_text, change_id, fields) ==
  IF io = "create_directories throws" THEN [log |-> log, outcome |-> "threw"]
  ELSE IF io = "open fails" THEN [log |-> log, outcome |-> "returned"]
  ELSE [log |-> Append(log, AuditLine(timestamp, action_text, change_id, fields)),
        outcome |-> "returned"]


\* --- the policies and requests the guard is exercised with ---------------

LogsDir == <<"l", "o", "g", "s", "/">>
LogsSecret == <<"l", "o", "g", "s", "/", "s", "e", "c", "r", "e", "t">>
EtcDir == <<"e", "t", "c", "/">>

\* the struct defaults of ResourceLimits, CircuitBreakerConfig, ExecutionPolicy
ExecutionPolicy ==
  [writable_allow_prefixes |-> <<>>,
   writable_deny_prefixes |-> <<>>,
   allowed_domains |-> <<>>,
   allowed_ports |-> <<>>,
   limits |-> [max_cpu_percent |-> 70, max_ram_mb |-> 4096, max_time_seconds |-> 900],
   circuit_breakers |-> [max_failed_deployments |-> 3,
                         max_regression_threshold |-> 500,
                         emergency_disable_file |-> "logs/.autonomy_disabled"]]

DefaultAllowPrefixes ==
  << <<"g", "a", "m", "e", "/", "a", "i", "/">>,
     <<"p", "o", "l", "i", "c", "i", "e", "s", "/">>,
     LogsDir,
     <<"t", "o", "o", "l", "s", "/">> >>

\* the last step of a successful ReloadPolicy
WithDefaultAllow(policy) ==
  IF policy.writable_allow_prefixes = <<>>
    THEN [policy EXCEPT !.writable_allow_prefixes = DefaultAllowPrefixes]
    ELSE policy

\* --- ReloadPolicy: the policy source and its parse -----------------------
\* The source is a file: readable or not, and its lines after Trim.  A line
\* is the sequence of its parts: <<>> is a blank line, <<"autonomy:">> a
\* line made of that word, <<"- ", item>> a list item, <<"max_percent:", v>>
\* a setting.  Numbers in the file are text, sequences of characters.

DigitChars == <<"0", "1", "2", "3", "4", "5", "6", "7", "8", "9">>
IsDigit(c) == \E n \in DOMAIN DigitChars : DigitChars[n] = c
DigitValue(c) == (CHOOSE n \in DOMAIN DigitChars : DigitChars[n] = c) - 1

RECURSIVE LeadingDigits(_)
LeadingDigits(text) ==
  IF text = <<>> \/ ~IsDigit(Head(text)) THEN <<>>
  ELSE <<Head(text)>> \o LeadingDigits(Tail(text))

RECURSIVE DigitsValue(_)
DigitsValue(digits) ==
  IF digits = <<>> THEN 0
  ELSE 10 * DigitsValue(SubSeq(digits, 1, Len(digits) - 1)) + DigitValue(digits[Len(digits)])

\* std::stoi: an optional sign, then the leading digits; what follows them
\* is ignored; no digit at all throws std::invalid_argument
stoi(text) ==
  LET signed == text # <<>> /\ Head(text) \in {"-", "+"}
      digits == LeadingDigits(IF signed THEN Tail(text) ELSE text)
  IN  IF digits = <<>> THEN [ok |-> FALSE, value |-> 0]
      ELSE [ok |-> TRUE,
            value |-> IF signed /\ Head(text) = "-"
                        THEN 0 - DigitsValue(digits) ELSE DigitsValue(digits)]

\* std::stod, in ten-thousandths: digits, then "." and up to four decimals
stod(text) ==
  LET whole == LeadingDigits(text)
      rest == SubSeq(text, Len(whole) + 1, Len(text))
      decimals == IF rest # <<>> /\ Head(rest) = "." THEN LeadingDigits(Tail(rest)) ELSE <<>>
      padded == SubSeq(decimals \o <<"0", "0", "0", "0">>, 1, 4)
  IN  IF whole = <<>> /\ decimals = <<>> THEN [ok |-> FALSE, value |-> 0]
      ELSE [ok |-> TRUE, value |-> TenThousand * DigitsValue(whole) + DigitsValue(padded)]

SectionLines == {<<"autonomy:">>, <<"network:">>, <<"resource_limits:">>, <<"cpu:">>,
                 <<"memory:">>, <<"execution:">>, <<"circuit_breakers:">>}

\* the loop body of ReloadPolicy on one line; st.threw is set when std::stoi
\* or std::stod throws, which leaves the loop and the method
ParseLine(st, line) ==
  LET numberInto(parsed, updated) ==
        IF parsed.ok THEN [st EXCEPT !.policy = updated] ELSE [st EXCEPT !.threw = TRUE]
  IN
  IF line = <<>> \/ line[1] = "#" THEN st
  ELSE IF line \in SectionLines
    THEN [st EXCEPT !.context = "None",
                    !.in_ai_writable = FALSE,
                    !.in_network_allow = IF line = <<"network:">> THEN @ ELSE FALSE]
  ELSE IF line = <<"ai_writable:">>
    THEN [st EXCEPT !.in_ai_writable = TRUE, !.context = "None"]
  ELSE IF line = <<"allow:">>
    THEN IF st.in_ai_writable THEN [st EXCEPT !.context = "AllowWritable"]
                              ELSE [st EXCEPT !.in_network_allow = TRUE]
  ELSE IF line = <<"deny:">>
    THEN IF st.in_ai_writable THEN [st EXCEPT !.context = "DenyWritable"]
                              ELSE [st EXCEPT !.in_network_allow = FALSE]
  ELSE IF line = <<"domains:">>
    THEN [st EXCEPT !.context = IF st.in_network_allow THEN "AllowDomain" ELSE "None"]
  ELSE IF line = <<"ports:">>
    THEN [st EXCEPT !.context = IF st.in_network_allow THEN "AllowPorts" ELSE "None"]
  ELSE IF line[1] = "- "
    THEN LET item == line[2] IN
         CASE st.context = "AllowWritable" ->
                [st EXCEPT !.policy.writable_allow_prefixes = Append(@, item)]
           [] st.context = "DenyWritable" ->
                [st EXCEPT !.policy.writable_deny_prefixes = Append(@, item)]
           [] st.context = "AllowDomain" ->
                IF item # "" /\ item # "\"*\""
                  THEN [st EXCEPT !.policy.allowed_domains = Append(@, item)]
                  ELSE st
           [] st.context = "AllowPorts" ->
                numberInto(stoi(item),
                           [st.policy EXCEPT !.allowed_ports = Append(@, stoi(item).value)])
           [] OTHER -> st
  ELSE IF line[1] = "max_percent:"
    THEN numberInto(stoi(line[2]), [st.policy EXCEPT !.limits.max_cpu_percent = stoi(line[2]).value])
  ELSE IF line[1] = "max_ram_mb:"
    THEN numberInto(stoi(line[2]), [st.policy EXCEPT !.limits.max_ram_mb = stoi(line[2]).value])
  ELSE IF line[1] = "max_time_seconds:"
    THEN numberInto(stoi(line[2]), [st.policy EXCEPT !.limits.max_time_seconds = stoi(line[2]).value])
  ELSE IF line[1] = "max_failed_deployments:"
    THEN numberInto(stoi(line[2]),
                    [st.policy EXCEPT !.circuit_breakers.max_failed_deployments = stoi(line[2]).value])
  ELSE IF line[1] = "max_regression_threshold:"
    THEN numberInto(stod(line[2]),
                    [st.policy EXCEPT !.circuit_breakers.max_regression_threshold = stod(line[2]).value])
  ELSE IF line[1] = "emergency_disable_file:"
    THEN [st EXCEPT !.policy.circuit_breakers.emergency_disable_file = line[2]]
  ELSE st

\* the parse state right after policy_ = ExecutionPolicy{}
ParseStart ==
  [policy |-> ExecutionPolicy, context |-> "None",
   in_ai_writable |-> FALSE, in_network_allow |-> FALSE, threw |-> FALSE]

RECURSIVE ParseLines(_, _)
ParseLines(st, lines) ==
  IF lines = <<>> \/ st.threw THEN st
  ELSE ParseLines(ParseLine(st, Head(lines)), Tail(lines))

\* a reload that falls back to the default allow list when the source cannot
\* be read
ReloadPolicy_defaultAllowOnFailure(current, file) ==
  IF ~file.readable THEN [outcome |-> "false", policy |-> WithDefaultAllow(current)]
  ELSE LET st == ParseLines(ParseStart, file.lines)
       IN  IF st.threw THEN [outcome |-> "threw", policy |-> st.policy]
           ELSE [outcome |-> "true", policy |-> WithDefaultAllow(st.policy)]

\* ReloadPolicy as one call: what it returns or throws, and policy_ after it
ReloadPolicy(current, file) ==
  IF ~file.readable THEN [outcome |-> "false", policy |-> current]
  ELSE LET st == ParseLines(ParseStart, file.lines)
       IN  IF st.threw THEN [outcome |-> "threw", policy |-> st.policy]
           ELSE [outcome |-> "true", policy |-> WithDefaultAllow(st.policy)]

DenyLists == {<<>>, <<LogsSecret>>, <<LogsDir>>, <<EtcDir, LogsSecret>>}
AllowLists == {<<>>, <<LogsDir>>, <<LogsSecret>>, <<EtcDir, LogsDir>>}

\* what a readable policy source can put into policy_ before the default
\* allow list is filled in: every deny / allow combination without and with
\* a network allow-list, and three sources that tighten a ceiling, lower the
\* failed-deployment maximum or name no emergency marker
PolicySources ==
  {[ExecutionPolicy EXCEPT !.writable_deny_prefixes = deny,
                           !.writable_allow_prefixes = allow,
                           !.allowed_domains = net[1],
                           !.allowed_ports = net[2]] :
     deny \in DenyLists, allow \in AllowLists,
     net \in {<< <<>>, <<>> >>, << <<"api.example.com">>, <<443, 8443>> >>}}
  \cup {[ExecutionPolicy EXCEPT !.limits.max_cpu_percent = 50],
        [ExecutionPolicy EXCEPT !.circuit_breakers.max_failed_deployments = 1],
        [ExecutionPolicy EXCEPT !.circuit_breakers.emergency_disable_file = "",
                                !.allowed_domains = <<"api.example.com">>,
                                !.allowed_ports = <<443>>]}

LoadedPolicies == {WithDefaultAllow(source) : source \in PolicySources}

\* a number of ten-thousandths as decimal text, "0.0500"
DecimalText(v) ==
  LET padded == <<"0", "0", "0">> \o to_string(v % TenThousand)
  IN  to_string(v \div TenThousand) \o <<".">> \o SubSeq(padded, Len(padded) - 3, Len(padded))

ItemLines(items) == [i \in DOMAIN items |-> <<"- ", items[i]>>]

\* a policy source file with the given content, laid out as the parser
\* expects: sections, then the lists and settings under them
PolicyFileOf(source) ==
  [readable |-> TRUE,
   lines |->
     << <<"#", "capability policy">>, <<"autonomy:">>, <<"ai_writable:">>, <<"allow:">> >>
     \o ItemLines(source.writable_allow_prefixes)
     \o << <<"deny:">> >> \o ItemLines(source.writable_deny_prefixes)
     \o << <<>>, <<"network:">>, <<"allow:">>, <<"domains:">> >>
     \o ItemLines(source.allowed_domains)
     \o << <<"ports:">> >>
     \o ItemLines([i \in DOMAIN source.allowed_ports |-> to_string(source.allowed_ports[i])])
     \o << <<"resource_limits:">>,
           <<"cpu:">>, <<"max_percent:", to_string(source.limits.max_cpu_percent)>>,
           <<"memory:">>, <<"max_ram_mb:", to_string(source.limits.max_ram_mb)>>,
           <<"execution:">>, <<"max_time_seconds:", to_string(source.limits.max_time_seconds)>>,
           <<"circuit_breakers:">>,
           <<"max_failed_deployments:",
             to_string(source.circuit_breakers.max_failed_deployments)>>,
           <<"max_regression_threshold:",
             DecimalText(source.circuit_breakers.max_regression_threshold)>>,
           <<"emergency_disable_file:", source.circuit_breakers.emergency_disable_file>> >>]

\* sources whose allowed-domain list carries a wildcard: the quoted "*" the
\* parser drops, alone and next to a real domain, and a bare *
WildcardSources ==
  {[ExecutionPolicy EXCEPT !.allowed_domains = domains, !.allowed_ports = <<443>>] :
     domains \in {<<"\"*\"">>, <<"api.example.com", "\"*\"">>, <<"*">>}}

PolicyFiles == {PolicyFileOf(source) : source \in PolicySources \cup WildcardSources}

MarkerFiles == {"logs/.autonomy_disabled"}

TouchedPaths ==
  { LogsSecret \o <<"/", "x", ".", "j", "s", "o", "n">>,
    LogsDir \o <<"a", ".", "l", "o", "g">>,
    LogsDir \o <<"/", "s", "e", "c", "r", "e", "t", "/", "x">>,
    EtcDir \o <<"p", "a", "s", "s", "w", "d">>,
    <<"l", "o", "g", "s">> }

MaxTouched == 2

TouchedLists == UNION {[1..n -> TouchedPaths] : n \in 0..MaxTouched}

\* a request every policy's network, resource and breaker checks let through
PlainRequest ==
  [touched_files |-> <<>>,
   outbound_domain |-> <<>>,
   outbound_port |-> 0,
   requested_cpu_percent |-> 10,
   requested_ram_mb |-> 512,
   requested_runtime_seconds |-> 60,
   regression_score |-> 0]

Requests ==
  {[PlainRequest EXCEPT !.touched_files = touched] : touched \in TouchedLists}
  \cup {[PlainRequest EXCEPT !.touched_files = touched,
                             !.outbound_domain = domain,
                             !.outbound_port = port,
                             !.requested_cpu_percent = cpu,
                             !.regression_score = regression] :
          touched \in {<<>>, <<LogsDir \o <<"a", ".", "l", "o", "g">>>>,
                       <<EtcDir \o <<"p", "a", "s", "s", "w", "d">>>>},
          domain \in {<<>>, <<"api.example.com">>, <<"evil.example.com">>},
          port \in {443, 8080},
          cpu \in {60, 71},
          regression \in {500, 501}}
  \cup {[PlainRequest EXCEPT !.requested_ram_mb = 4097],
        [PlainRequest EXCEPT !.requested_runtime_seconds = 901],
        [PlainRequest EXCEPT !.outbound_domain = <<"*">>, !.outbound_port = 443]}

MaxLedger == 2

Timestamps == {<<"2026-01-01T00:00:00Z">>}
PlainText == <<"tune">>
ChangeIds == {<<"chg-1">>}

\* the two lines RecordApplied writes for an unremarkable change
PlainAppliedLines ==
  {AuditLine(ts, "applied", id, << <<"success", <<outcome>>>>, <<"summary", PlainText>> >>) :
     ts \in Timestamps, id \in ChangeIds, outcome \in {"true", "false"}}

\* ledgers that earlier RecordApplied calls have left behind
GuardLedgers == UNION {[1..n -> PlainAppliedLines] : n \in 0..MaxLedger}

\* a guard constructed on a readable policy source, with a ledger and
\* possibly an emergency marker already on disk
GuardInit ==
  /\ LifecycleIdle
  /\ SimIdle
  /\ CallsIdle
  /\ ThreadsIdle
  /\ policyFile \in PolicyFiles
  /\ policy_ = ReloadPolicy(ExecutionPolicy, policyFile).policy
  /\ auditLog \in GuardLedgers
  /\ files \in SUBSET MarkerFiles
  /\ request = NoRequest
  /\ decision = NoDecision
  /\ denials = {}

\* one call of EnforceBeforePatchDeployment with a request of the given set;
\* the method is const: it reads policy_, the ledger file and the marker file
EnforceCall(requests) ==
  \E req \in requests, stdlib \in StdLibs :
    /\ request' = req
    /\ decision' = EnforceBeforePatchDeployment(policy_, req, auditLog, files, stdlib)
    /\ denials' = IF decision'.allowed THEN denials ELSE denials \cup {decision'.reason[1]}
    /\ recorded' = NoRecord
    /\ recent' = NoRecent
    /\ UNCHANGED <<policy_, policyFile, auditLog, files, threadVars, lifecycleVars, simVars>>

\* A call repeated before policy_, the ledger or the marker changed returns
\* what the first call returned, so one call is taken per state of the three.
CallEnforceBeforePatchDeployment ==
  /\ decision = NoDecision
  /\ EnforceCall(Requests)

GuardNext == CallEnforceBeforePatchDeployment

SpecGuard == GuardInit /\ [][GuardNext]_vars

\* --- the ledger: Record*, RecentEntries, the emergency marker -------------

\* a text that closes its own value and carries two members of its own:
\*   x","action":"applied","success":"false
CraftedText ==
  <<"x", Quote, ",">> \o <<Quote, "action", Quote, ":", Quote, "applied", Quote, ",">>
                      \o <<Quote, "success", Quote, ":", Quote, "false">>

Texts == {PlainText, CraftedText}

\* policies for the breaker: a failed-deployment maximum of 1 and of 2
LedgerSources ==
  {[ExecutionPolicy EXCEPT !.circuit_breakers.max_failed_deployments = 1],
   [ExecutionPolicy EXCEPT !.circuit_breakers.max_failed_deployments = 2]}

LedgerPolicyFiles == {PolicyFileOf(source) : source \in LedgerSources}

\* requests that pass the first three checks, at and above the regression
\* threshold
BreakerRequests ==
  {[PlainRequest EXCEPT !.regression_score = 500],
   [PlainRequest EXCEPT !.regression_score = 501]}

MaxEntries == 2

LedgerInit ==
  /\ LifecycleIdle
  /\ SimIdle
  /\ CallsIdle
  /\ ThreadsIdle
  /\ policyFile \in LedgerPolicyFiles
  /\ policy_ = ReloadPolicy(ExecutionPolicy, policyFile).policy
  /\ auditLog = <<>>
  /\ files = {}
  /\ request = NoRequest
  /\ decision = NoDecision
  /\ denials = {}

CheckBreaker ==
  /\ decision = NoDecision
  /\ EnforceCall(BreakerRequests)

\* one Record* call: Audit with the action and fields of the method; the
\* caller gets nothing back (void) unless Audit threw
RecordCall(op, action_text, change_id, fields) ==
  \E io \in IoOutcomes, timestamp \in Timestamps :
    LET audit == Audit(auditLog, io, timestamp, action_text, change_id, fields)
    IN  /\ Len(auditLog) < MaxEntries
        /\ auditLog' = audit.log
        /\ recorded' = [op |-> op, fields |-> fields, outcome |-> audit.outcome,
                         written |-> io = "written"]
        /\ recent' = NoRecent
        /\ request' = NoRequest
        /\ decision' = NoDecision
        /\ UNCHANGED <<policy_, policyFile, files, denials, threadVars, lifecycleVars, simVars>>

RecordProposed ==
  \E change_id \in ChangeIds :
    RecordCall("RecordProposed", "proposed", change_id, << <<"summary", PlainText>> >>)

RecordApplied ==
  \E change_id \in ChangeIds, success \in BOOLEAN :
    RecordCall("RecordApplied", "applied", change_id,
               << <<"success", IF success THEN <<"true">> ELSE <<"false">>>>,
                  <<"summary", PlainText>> >>)

RecordReverted ==
  \E change_id \in ChangeIds, reason \in Texts :
    RecordCall("RecordReverted", "reverted", change_id,
               << <<"reason", reason>>, <<"summary", PlainText>> >>)

\* the operator creates or removes the emergency marker of the policy
MarkerStep(existing) ==
  /\ policy_.circuit_breakers.emergency_disable_file # ""
  /\ files' = existing
  /\ request' = NoRequest
  /\ decision' = NoDecision
  /\ recorded' = NoRecord
  /\ recent' = NoRecent
  /\ UNCHANGED <<policy_, policyFile, auditLog, denials, threadVars, lifecycleVars, simVars>>

CreateMarker ==
  /\ policy_.circuit_breakers.emergency_disable_file \notin files
  /\ MarkerStep(files \cup {policy_.circuit_breakers.emergency_disable_file})

RemoveMarker ==
  /\ policy_.circuit_breakers.emergency_disable_file \in files
  /\ MarkerStep(files \ {policy_.circuit_breakers.emergency_disable_file})

\* "" when the key, or the quote that closes its value, is not found
ExtractField(line, field) ==
  LET key == <<Quote, field, Quote, ":", Quote>>
      start == FindFrom(line, key, 1)
      value_start == start + Len(key)
      value_end == FindFrom(line, <<Quote>>, value_start)
  IN  IF start = 0 THEN <<>>
      ELSE IF value_end = 0 THEN <<>>
      ELSE SubSeq(line, value_start, value_end - 1)

AuditEntry(line) ==
  LET action == ExtractField(line, "action")
  IN  [timestamp |-> ExtractField(line, "timestamp"),
       action |-> action,
       change_id |-> ExtractField(line, "change_id"),
       summary |-> ExtractField(line, "summary"),
       outcome |-> IF action = <<"applied">>
                     THEN IF ExtractField(line, "success") = <<"true">>
                            THEN <<"success">> ELSE <<"failed">>
                   ELSE IF action = <<"reverted">>
                     THEN <<"reverted:">> \o ExtractField(line, "reason")
                   ELSE <<>>]

\* the first limit entries instead of the last
RecentEntries_first(log, limit) ==
  LET all == [i \in 1..Len(log) |-> AuditEntry(log[i])]
  IN  IF Len(all) <= limit THEN all ELSE SubSeq(all, 1, limit)

RecentEntries(log, limit) ==
  LET all == [i \in 1..Len(log) |-> AuditEntry(log[i])]
  IN  IF Len(all) <= limit THEN all
      ELSE SubSeq(all, Len(all) - limit + 1, Len(all))

MaxLimit == 3

CallRecentEntries ==
  \E limit \in 0..MaxLimit :
    /\ recent' = [limit |-> limit, entries |-> RecentEntries(auditLog, limit)]
    /\ recorded' = NoRecord
    /\ request' = NoRequest
    /\ decision' = NoDecision
    /\ UNCHANGED <<policy_, policyFile, auditLog, files, denials, threadVars,
                   lifecycleVars, simVars>>

LedgerNext ==
  \/ CheckBreaker
  \/ RecordProposed
  \/ RecordApplied
  \/ RecordReverted
  \/ CreateMarker
  \/ RemoveMarker
  \/ CallRecentEntries

SpecLedger == LedgerInit /\ [][LedgerNext]_vars

\* --- ReloadPolicy and EnforceBeforePatchDeployment, statement by statement --
\* PolicyGuard holds policy_ as a plain member: no mutex, no atomic, no
\* snapshot.  ReloadPolicy writes it in place, at the assignment of line 148,
\* in the loop body for each line, and at the default allow list; the checks
\* of EnforceBeforePatchDeployment read it in place, one after the other.  A
\* thread takes one such statement per step.

OldSource ==
  [ExecutionPolicy EXCEPT !.writable_deny_prefixes = <<LogsSecret>>,
                          !.writable_allow_prefixes = <<LogsDir>>,
                          !.allowed_ports = <<443>>]

NewSource == [OldSource EXCEPT !.limits.max_cpu_percent = 50]

\* the file with its first line equal to old replaced by new
ReplaceLine(file, old, new) ==
  LET k == CHOOSE i \in DOMAIN file.lines :
             /\ file.lines[i] = old
             /\ \A j \in 1..(i - 1) : file.lines[j] # old
  IN  [file EXCEPT !.lines[k] = new]

\* the new source with a ceiling, a threshold or a port that is not a number
NonNumericFiles ==
  {ReplaceLine(PolicyFileOf(NewSource),
               <<"max_percent:", to_string(50)>>,
               <<"max_percent:", <<"l", "o", "t", "s">>>>),
   ReplaceLine(PolicyFileOf(NewSource),
               <<"max_regression_threshold:", DecimalText(500)>>,
               <<"max_regression_threshold:", <<"l", "o", "w">>>>),
   ReplaceLine(PolicyFileOf(NewSource),
               <<"- ", to_string(443)>>,
               <<"- ", <<"h", "t", "t", "p", "s">>>>)}

ReloadFiles == {PolicyFileOf(OldSource), PolicyFileOf(NewSource), NoFile} \cup NonNumericFiles

ReloadRequests ==
  {[PlainRequest EXCEPT !.touched_files = <<LogsSecret \o <<"/", "x", ".", "j", "s", "o", "n">>>>],
   [PlainRequest EXCEPT !.touched_files = <<LogsDir \o <<"a", ".", "l", "o", "g">>>>,
                        !.requested_cpu_percent = 60],
   [PlainRequest EXCEPT !.touched_files = <<EtcDir \o <<"p", "a", "s", "s", "w", "d">>>>]}

\* the guard was constructed from a source that was unreadable or parsed
ReloadInit ==
  /\ LifecycleIdle
  /\ SimIdle
  /\ CallsIdle
  /\ ThreadsIdle
  /\ policyFile \in {PolicyFileOf(OldSource), PolicyFileOf(NewSource), NoFile}
  /\ policy_ = ReloadPolicy(ExecutionPolicy, policyFile).policy
  /\ auditLog = <<>>
  /\ files = {}
  /\ request = NoRequest
  /\ decision = NoDecision
  /\ denials = {}

ReloadFrame ==
  <<policyFile, auditLog, files, denials, callVars, appending, lifecycleVars, simVars>>

\* the policy source is edited, or made unreadable, between two reloads
EditPolicySource ==
  \E file \in ReloadFiles \ {policyFile} :
    /\ reload.pc # "parsing"
    /\ enforcing = NotEnforcing
    /\ policyFile' = file
    /\ reload' = NoReload
    /\ request' = NoRequest
    /\ decision' = NoDecision
    /\ UNCHANGED <<policy_, enforcing, appending, auditLog, files, denials, callVars,
                   lifecycleVars, simVars>>

\* lines 143-148: the source is opened; policy_ is reset when it is
ReloadPolicy_open ==
  /\ reload = NoReload
  /\ IF ~policyFile.readable
       THEN /\ reload' = [pc |-> "returned", outcome |-> "false", before |-> policy_]
            /\ policy_' = policy_
       ELSE /\ reload' = [pc |-> "parsing", next |-> 1, before |-> policy_,
                          context |-> ParseStart.context,
                          in_ai_writable |-> ParseStart.in_ai_writable,
                          in_network_allow |-> ParseStart.in_network_allow]
            /\ policy_' = ParseStart.policy
  /\ UNCHANGED <<request, decision, enforcing, ReloadFrame>>

\* lines 157-252: one turn of the loop
ReloadPolicy_line ==
  /\ reload.pc = "parsing"
  /\ reload.next <= Len(policyFile.lines)
  /\ LET st == ParseLine([policy |-> policy_, context |-> reload.context,
                          in_ai_writable |-> reload.in_ai_writable,
                          in_network_allow |-> reload.in_network_allow,
                          threw |-> FALSE],
                         policyFile.lines[reload.next])
     IN  /\ policy_' = st.policy
         /\ reload' = IF st.threw
                        THEN [pc |-> "returned", outcome |-> "threw", before |-> reload.before]
                        ELSE [reload EXCEPT !.next = @ + 1,
                                            !.context = st.context,
                                            !.in_ai_writable = st.in_ai_writable,
                                            !.in_network_allow = st.in_network_allow]
  /\ UNCHANGED <<request, decision, enforcing, ReloadFrame>>

\* lines 255-259: the default allow list, return true
ReloadPolicy_return ==
  /\ reload.pc = "parsing"
  /\ reload.next > Len(policyFile.lines)
  /\ policy_' = WithDefaultAllow(policy_)
  /\ reload' = [pc |-> "returned", outcome |-> "true", before |-> reload.before]
  /\ UNCHANGED <<request, decision, enforcing, ReloadFrame>>

\* the call is made
Enforce_call ==
  \E req \in ReloadRequests, stdlib \in StdLibs :
    /\ enforcing = NotEnforcing
    /\ request' = req
    /\ decision' = NoDecision
    /\ enforcing' = [pc |-> "paths", next |-> 1, stdlib |-> stdlib]
    /\ UNCHANGED <<policy_, reload, ReloadFrame>>

\* the statement either returns its denial or moves on
EnforceStep(check_ok, reason, onward) ==
  /\ IF check_ok
       THEN /\ enforcing' = onward
            /\ decision' = decision
       ELSE /\ enforcing' = NotEnforcing
            /\ decision' = [allowed |-> FALSE, reason |-> reason]
  /\ UNCHANGED <<request, policy_, reload, ReloadFrame>>

\* lines 271-275: one turn of the loop over touched_files
Enforce_path ==
  /\ enforcing.pc = "paths"
  /\ enforcing.next <= Len(request.touched_files)
  /\ LET check == IsWritablePathAllowed(policy_, request.touched_files[enforcing.next],
                                        enforcing.stdlib)
     IN  EnforceStep(check.ok, check.reason, [enforcing EXCEPT !.next = @ + 1])

\* lines 277-279
Enforce_network ==
  /\ enforcing.pc = "paths"
  /\ enforcing.next > Len(request.touched_files)
  /\ LET check == IsNetworkAllowed(policy_, request.outbound_domain, request.outbound_port)
     IN  EnforceStep(check.ok, check.reason, [enforcing EXCEPT !.pc = "resources"])

\* lines 281-284
Enforce_resources ==
  /\ enforcing.pc = "resources"
  /\ LET check == AreResourcesAllowed(policy_, request.requested_cpu_percent,
                                      request.requested_ram_mb,
                                      request.requested_runtime_seconds)
     IN  EnforceStep(check.ok, check.reason, [enforcing EXCEPT !.pc = "breaker"])

\* lines 286-290
Enforce_breaker ==
  /\ enforcing.pc = "breaker"
  /\ LET breaker == IsCircuitBreakerOpen(policy_, request.regression_score, auditLog, files)
     IN  /\ decision' = IF breaker.open
                          THEN [allowed |-> FALSE, reason |-> breaker.reason]
                          ELSE [allowed |-> TRUE, reason |-> <<"allowed">>]
         /\ enforcing' = NotEnforcing
  /\ UNCHANGED <<request, policy_, reload, ReloadFrame>>

ReloadNext ==
  \/ EditPolicySource
  \/ ReloadPolicy_open
  \/ ReloadPolicy_line
  \/ ReloadPolicy_return
  \/ Enforce_call
  \/ Enforce_path
  \/ Enforce_network
  \/ Enforce_resources
  \/ Enforce_breaker

SpecReload == ReloadInit /\ [][ReloadNext]_vars

\* --- a guard constructed over an unreadable policy source ------------------

\* a source that allows writes under logs/ and one domain on port 443
NetworkSource == [OldSource EXCEPT !.allowed_domains = <<"api.example.com">>]

\* the source is absent; parses; names a ceiling that is not a number
UnloadedFiles ==
  {NoFile, PolicyFileOf(NetworkSource),
   ReplaceLine(PolicyFileOf(NetworkSource),
               <<"max_percent:", to_string(NetworkSource.limits.max_cpu_percent)>>,
               <<"max_percent:", <<"l", "o", "t", "s">>>>)}

\* no path and no domain; a path under logs/; the empty path; a domain alone;
\* a path outside every prefix with a domain
UnloadedRequests ==
  {PlainRequest,
   [PlainRequest EXCEPT !.touched_files = <<LogsDir \o <<"a", ".", "l", "o", "g">>>>],
   [PlainRequest EXCEPT !.touched_files = << <<>> >>],
   [PlainRequest EXCEPT !.outbound_domain = <<"api.example.com">>, !.outbound_port = 443],
   [PlainRequest EXCEPT !.touched_files = <<EtcDir \o <<"p", "a", "s", "s", "w", "d">>>>,
                        !.outbound_domain = <<"api.example.com">>,
                        !.outbound_port = 443]}

\* the constructor ran ReloadPolicy on a source that could not be opened
UnloadedInit ==
  /\ LifecycleIdle
  /\ SimIdle
  /\ CallsIdle
  /\ ThreadsIdle
  /\ policyFile = NoFile
  /\ policy_ = ReloadPolicy(ExecutionPolicy, policyFile).policy
  /\ auditLog = <<>>
  /\ files = {}
  /\ request = NoRequest
  /\ decision = NoDecision
  /\ denials = {}

\* the policy source appears, changes or disappears
ChangeSource ==
  \E file \in UnloadedFiles \ {policyFile} :
    /\ policyFile' = file
    /\ request' = NoRequest
    /\ decision' = NoDecision
    /\ UNCHANGED <<policy_, auditLog, files, denials, callVars, threadVars,
                   lifecycleVars, simVars>>

\* some ReloadPolicy call so far opened the source
Loaded == reload # NoReload /\ reload.loaded

\* one ReloadPolicy call, from its start to its return or its throw
CallReloadPolicy ==
  LET call == ReloadPolicy(policy_, policyFile) IN
  /\ policy_' = call.policy
  /\ reload' = [pc |-> "returned", outcome |-> call.outcome,
                loaded |-> Loaded \/ call.outcome # "false"]
  /\ request' = NoRequest
  /\ decision' = NoDecision
  /\ UNCHANGED <<policyFile, auditLog, files, denials, callVars, enforcing, appending,
                 lifecycleVars, simVars>>

CallEnforce == EnforceCall(UnloadedRequests)

UnloadedNext ==
  \/ ChangeSource
  \/ CallReloadPolicy
  \/ CallEnforce

SpecUnloaded == UnloadedInit /\ [][UnloadedNext]_vars

(***************************************************************************)
(* Part 4. The control plane's HTTP handlers over the InMemoryStore.       *)
(* The handlers are async functions of one Node.js process: a handler runs  *)
(* from its start, or from the await it resumes at, to its next await or    *)
(* its return without any other handler running in between.  inflight.loop *)
(* is the call that holds the event loop, 0 when the loop is free.          *)
(***************************************************************************)

\* how many requests are received in one run
MaxRequests == 3

\* risk_score of a request body, in hundredths; 101 fails the schema's max(1)
BodyRiskScores == {79, 80, 100, 101}

\* ChangeSetCreateSchema: risk_score is a number in [0, 1]
ChangeSetCreateSchema(body) == body.risk_score >= 0 /\ body.risk_score <= 100

\* uuidv4(): an id no stored change-set has
FreshIds == {id \in StoreIds : store.changeSets[id] = NoChangeSet}

\* a handler that awaited between getChangeSet and putChangeSet
PromoteAwaits_betweenGetAndPut == TRUE

\* the promote handler has no await between getChangeSet and putChangeSet
PromoteAwaits == FALSE

StoreInit ==
  /\ LifecycleIdle
  /\ SimIdle
  /\ GuardIdle

Received(call) ==
  /\ Len(inflight.calls) < MaxRequests
  /\ inflight' = [inflight EXCEPT !.calls = Append(@, call)]
  /\ UNCHANGED <<store, events, changeSet, csLog, simVars, guardVars>>

ReceiveCreate ==
  \E risk \in BodyRiskScores :
    Received([route |-> "create", body |-> [risk_score |-> risk], pc |-> "queued"])

ReceivePromote ==
  \E changeId \in StoreIds :
    Received([route |-> "promote", changeId |-> changeId, pc |-> "queued"])

Answer(rq, status, more) ==
  [inflight EXCEPT !.loop = 0,
                   !.calls[rq] = [route |-> @.route, pc |-> "answered", status |-> status] @@ more]

\* POST /v1/deployments/changesets, lines 336-346
CreateHandler ==
  \E rq \in DOMAIN inflight.calls :
    LET call == inflight.calls[rq] IN
    /\ inflight.loop = 0
    /\ call.route = "create"
    /\ call.pc = "queued"
    /\ IF ~ChangeSetCreateSchema(call.body)
         THEN /\ inflight' = Answer(rq, 400, [changeId |-> 0])
              /\ UNCHANGED <<store, events>>
         ELSE /\ FreshIds # {}
              /\ LET change_id == CHOOSE id \in FreshIds : \A other \in FreshIds : id <= other
                     staged == createChangeSet(call.body.risk_score)
                     canaryEvaluated == evaluateCanary(staged)
                 IN  /\ store' = [store EXCEPT !.changeSets[change_id] = canaryEvaluated]
                     /\ events' = Append(events, [op |-> "putChangeSet", rq |-> rq,
                                                  route |-> "create", changeId |-> change_id,
                                                  read |-> NoChangeSet,
                                                  overwritten |-> store.changeSets[change_id],
                                                  written |-> canaryEvaluated])
                     /\ inflight' = Answer(rq, 201, [changeId |-> change_id])
    /\ UNCHANGED <<changeSet, csLog, simVars, guardVars>>

\* POST /v1/deployments/changesets/:changeId/promote, lines 348-353
PromoteHandler_get ==
  \E rq \in DOMAIN inflight.calls :
    LET call == inflight.calls[rq]
        existing == store.changeSets[call.changeId]
    IN
    /\ inflight.loop = 0
    /\ call.route = "promote"
    /\ call.pc = "queued"
    /\ inflight' = IF existing = NoChangeSet
                     THEN Answer(rq, 404, [changeId |-> call.changeId])
                     ELSE [inflight EXCEPT !.loop = IF PromoteAwaits THEN 0 ELSE rq,
                                           !.calls[rq] = [route |-> "promote",
                                                          changeId |-> call.changeId,
                                                          pc |-> "got",
                                                          existing |-> existing]]
    /\ UNCHANGED <<store, events, changeSet, csLog, simVars, guardVars>>

\* lines 355-357
PromoteHandler_put ==
  \E rq \in DOMAIN inflight.calls :
    LET call == inflight.calls[rq] IN
    /\ inflight.loop \in {rq} \cup (IF PromoteAwaits THEN {0} ELSE {})
    /\ call.route = "promote"
    /\ call.pc = "got"
    /\ LET promoted == promoteChangeSet(call.existing)
       IN  /\ store' = [store EXCEPT !.changeSets[call.changeId] = promoted]
           /\ events' = Append(events, [op |-> "putChangeSet", rq |-> rq,
                                        route |-> "promote", changeId |-> call.changeId,
                                        read |-> call.existing,
                                        overwritten |-> store.changeSets[call.changeId],
                                        written |-> promoted])
           /\ inflight' = Answer(rq, 200, [changeId |-> call.changeId])
    /\ UNCHANGED <<changeSet, csLog, simVars, guardVars>>

StoreNext ==
  \/ ReceiveCreate
  \/ ReceivePromote
  \/ CreateHandler
  \/ PromoteHandler_get
  \/ PromoteHandler_put

SpecStore == StoreInit /\ [][StoreNext]_vars

\* --- POST /v1/agents and POST /v1/agents/:agentId/execute ------------------

\* the policies of the execute bodies: within the guardrails; a runtime of
\* 7201 seconds; no tool; both; a runtime of 0, which fails the schema
ExecutePolicies ==
  {[tool_allowances |-> tools,
    resource_limits |-> [max_runtime_seconds |-> seconds],
    network_scope |-> "internal"] :
     tools \in {<<>>, <<"fs.read">>}, seconds \in {7200, 7201}}
  \cup {[tool_allowances |-> <<"fs.read">>,
         resource_limits |-> [max_runtime_seconds |-> 0],
         network_scope |-> "internal"]}

ExecuteBodies == {[intent |-> <<"r", "u", "n">>, policy |-> policy] : policy \in ExecutePolicies}

\* ExecutionPolicySchema: max_runtime_seconds is a positive integer,
\* network_scope one of the two scopes, tool_allowances any list of strings
ExecutionPolicySchema(policy) ==
  /\ policy.resource_limits.max_runtime_seconds > 0
  /\ policy.network_scope \in {"internal", "internet"}

\* AgentExecuteSchema: an intent of three characters or more and a policy
AgentExecuteSchema(body) ==
  /\ Len(body.intent) >= 3
  /\ ExecutionPolicySchema(body.policy)

\* a check of the runtime limit alone
enforcePolicy_runtimeOnly(policy) ==
  LET reasons ==
        IF policy.resource_limits.max_runtime_seconds > 7200
          THEN <<"max_runtime_seconds exceeds guardrail limit">> ELSE <<>>
  IN  [allowed |-> Len(reasons) = 0, reasons |-> reasons]

enforcePolicy(policy) ==
  LET reasons ==
        (IF policy.resource_limits.max_runtime_seconds > 7200
           THEN <<"max_runtime_seconds exceeds guardrail limit">> ELSE <<>>)
        \o (IF Len(policy.tool_allowances) = 0
              THEN <<"at least one tool must be allowed">> ELSE <<>>)
        \o (IF policy.network_scope \notin {"internal", "internet"}
              THEN <<"invalid network scope">> ELSE <<>>)
  IN  [allowed |-> Len(reasons) = 0, reasons |-> reasons]

\* the memories of an agent keep their last 1000 entries
MemoryLimit == 1000

\* InMemoryStore.appendMemory
appendMemory(memories, agentId, entry) ==
  LET current == Append(memories[agentId], entry)
  IN  [memories EXCEPT ![agentId] =
         IF Len(current) <= MemoryLimit THEN current
         ELSE SubSeq(current, Len(current) - MemoryLimit + 1, Len(current))]

ExecuteInit == StoreInit

\* the handler ran to its return: the call and its answer
Answered(call, status, more) ==
  /\ Len(inflight.calls) < MaxRequests
  /\ inflight' = [inflight EXCEPT !.calls =
                    Append(@, [pc |-> "answered", status |-> status] @@ more @@ call)]

\* POST /v1/agents, lines 195-208, for a body that passes AgentProfileSchema
CreateAgentHandler ==
  \E agentId \in AgentIds :
    LET rq == Len(inflight.calls) + 1 IN
    /\ Answered([route |-> "agents", agentId |-> agentId], 201, <<>>)
    /\ store' = [store EXCEPT !.agents = @ \cup {agentId},
                              !.memories = appendMemory(@, agentId, "agent created")]
    /\ events' = events \o << [op |-> "putAgent", rq |-> rq, agentId |-> agentId],
                              [op |-> "appendMemory", rq |-> rq, agentId |-> agentId] >>
    /\ UNCHANGED <<changeSet, csLog, simVars, guardVars>>

\* POST /v1/agents/:agentId/execute, lines 210-232: from the request to its
\* answer, or to the await of dispatchRuntime's fetch
ExecuteHandler ==
  \E agentId \in AgentIds, body \in ExecuteBodies :
    LET rq == Len(inflight.calls) + 1
        call == [route |-> "execute", agentId |-> agentId, body |-> body]
        policyResult == enforcePolicy(body.policy)
    IN  /\ IF agentId \notin store.agents
             THEN /\ Answered(call, 404, <<>>)
                  /\ UNCHANGED events
           ELSE IF ~AgentExecuteSchema(body)
             THEN /\ Answered(call, 400, <<>>)
                  /\ UNCHANGED events
           ELSE IF ~policyResult.allowed
             THEN /\ Answered(call, 422, [reasons |-> policyResult.reasons])
                  /\ UNCHANGED events
           ELSE /\ Len(inflight.calls) < MaxRequests
                /\ inflight' = [inflight EXCEPT !.calls =
                                  Append(@, [pc |-> "dispatched"] @@ call)]
                /\ events' = Append(events, [op |-> "dispatchRuntime", rq |-> rq,
                                             agentId |-> agentId])
        /\ UNCHANGED <<store, changeSet, csLog, simVars, guardVars>>

\* lines 227-246: the runtime plane answered, or the fetch failed and
\* dispatchRuntime returned null; the memory is appended and the call answered
ExecuteHandler_resume ==
  \E rq \in DOMAIN inflight.calls, runtime \in {"trace", "null"} :
    LET call == inflight.calls[rq] IN
    /\ call.pc = "dispatched"
    /\ store' = [store EXCEPT !.memories = appendMemory(@, call.agentId, "executed intent")]
    /\ events' = Append(events, [op |-> "appendMemory", rq |-> rq, agentId |-> call.agentId])
    /\ inflight' = [inflight EXCEPT !.calls[rq] =
                      [pc |-> "answered", status |-> 200,
                       result |-> IF runtime = "null" THEN "accepted" ELSE "completed"]
                        @@ call]
    /\ UNCHANGED <<changeSet, csLog, simVars, guardVars>>

ExecuteNext ==
  \/ CreateAgentHandler
  \/ ExecuteHandler
  \/ ExecuteHandler_resume

SpecExecute == ExecuteInit /\ [][ExecuteNext]_vars

(***************************************************************************)
(* Part 5. The ledger file under concurrent Audit calls.                   *)
(*                                                                         *)
(* Audit opens a std::ofstream in append mode and streams the record into  *)
(* it with one insertion per piece.  It takes no lock and never flushes:   *)
(* the stream buffer reaches the file when it overflows and when the       *)
(* stream is destroyed.  A record shorter than the buffer is one write of  *)
(* the whole line.  A text longer than the buffer is written, with what    *)
(* was buffered before it, as soon as it is inserted; the rest of the      *)
(* record, its closing quote, brace and newline included, is a second      *)
(* write at destruction.  Each write appends at the end of the file.       *)
(***************************************************************************)

\* a summary longer than the stream buffer
LongText == <<"tune the spawn tables ... (longer than the stream buffer)">>

SummaryTexts == {PlainText, LongText}

\* the position of the first text of the line that overflows the buffer, or 0
RECURSIVE Overflows(_, _)
Overflows(line, from) ==
  IF from > Len(line) THEN 0
  ELSE IF line[from] = LongText[1] THEN from
  ELSE Overflows(line, from + 1)

\* the writes that carry one record to the file, in order
WriteCalls(line) ==
  LET at == Overflows(line, 1)
  IN  IF at = 0 THEN << [tokens |-> line, newline |-> TRUE] >>
      ELSE << [tokens |-> SubSeq(line, 1, at), newline |-> FALSE],
              [tokens |-> SubSeq(line, at + 1, Len(line)), newline |-> TRUE] >>

\* the records of the three Record* methods
RecordLines ==
  {AuditLine(ts, "proposed", id, << <<"summary", summary>> >>) :
     ts \in Timestamps, id \in ChangeIds, summary \in SummaryTexts}
  \cup {AuditLine(ts, "applied", id,
                  << <<"success", <<outcome>>>>, <<"summary", summary>> >>) :
          ts \in Timestamps, id \in ChangeIds, outcome \in {"false"},
          summary \in SummaryTexts}
  \cup {AuditLine(ts, "reverted", id,
                  << <<"reason", PlainText>>, <<"summary", summary>> >>) :
          ts \in Timestamps, id \in ChangeIds, summary \in SummaryTexts}

AppendInit ==
  /\ LedgerInit
  /\ policy_.circuit_breakers.max_failed_deployments = 1

\* a thread enters a Record* method: Audit builds the record and opens the file
Audit_open(w) ==
  /\ appending.writers[w] = <<>>
  /\ Len(auditLog) < MaxEntries
  /\ \E line \in RecordLines :
       appending' = [appending EXCEPT !.writers[w] = WriteCalls(line)]
  /\ recorded' = NoRecord
  /\ recent' = NoRecent
  /\ request' = NoRequest
  /\ decision' = NoDecision
  /\ UNCHANGED <<policy_, policyFile, auditLog, files, denials, reload, enforcing,
                 lifecycleVars, simVars>>

\* the file after one write in append mode: the bytes continue the last line
\* when that line has no newline yet
Appended(log, open, tokens) ==
  IF open /\ log # <<>> THEN [log EXCEPT ![Len(log)] = @ \o tokens]
  ELSE Append(log, tokens)

\* the stream of thread w writes what it holds
Audit_write(w) ==
  /\ appending.writers[w] # <<>>
  /\ LET call == Head(appending.writers[w])
     IN  /\ auditLog' = Appended(auditLog, appending.open, call.tokens)
         /\ appending' = [open |-> ~call.newline,
                          writers |-> [appending.writers EXCEPT ![w] = Tail(@)]]
  /\ recorded' = IF Len(appending.writers[w]) = 1
                   THEN [op |-> "Record", outcome |-> "returned", written |-> TRUE]
                   ELSE NoRecord
  /\ recent' = NoRecent
  /\ request' = NoRequest
  /\ decision' = NoDecision
  /\ UNCHANGED <<policy_, policyFile, files, denials, reload, enforcing,
                 lifecycleVars, simVars>>

AppendNext ==
  \/ \E w \in Writers : Audit_open(w)
  \/ \E w \in Writers : Audit_write(w)
  \/ CallRecentEntries

SpecAppend == AppendInit /\ [][AppendNext]_vars



(***************************************************************************)
(* Claims about the capability guard.                                      *)
(***************************************************************************)

\* an EnforceBeforePatchDeployment call has returned
Enforced == decision # NoDecision

\* prefix is an initial segment of str
IsPrefixOf(prefix, str) == \E n \in 0..Len(str) : SubSeq(str, 1, n) = prefix

MatchesDeny(str) == \E prefix \in Range(policy_.writable_deny_prefixes) : IsPrefixOf(prefix, str)
MatchesAllow(str) == \E prefix \in Range(policy_.writable_allow_prefixes) : IsPrefixOf(prefix, str)

PathReasons == {"write denied for path: ", "write outside allowed scope: "}

\* C10: deny precedence.  Paths are taken in their generic format, the
\* string the guard compares and reports.  A request with a touched path
\* under a deny-prefix is denied, under an allow-prefix or not; the first
\* touched path that is under a deny-prefix or under no allow-prefix decides
\* the reason: "write denied for path: " followed by the path when it is
\* under a deny-prefix, "write outside allowed scope: " followed by the path
\* otherwise; and when every touched path is under no deny-prefix and under
\* some allow-prefix the path check accepts, so the decision carries no
\* path reason.
C10_DenyPrecedence ==
  Enforced =>
    \E stdlib \in StdLibs :
      LET touched == request.touched_files
          str(i) == generic_string(touched[i], stdlib)
          accepted(i) == ~MatchesDeny(str(i)) /\ MatchesAllow(str(i))
          rejected == {i \in DOMAIN touched : ~accepted(i)}
      IN  /\ (\E i \in DOMAIN touched : MatchesDeny(str(i))) => ~decision.allowed
          /\ \A i \in rejected :
               (\A j \in rejected : i <= j) =>
                 /\ ~decision.allowed
                 /\ decision.reason =
                      IF MatchesDeny(str(i))
                        THEN <<"write denied for path: ">> \o str(i)
                        ELSE <<"write outside allowed scope: ">> \o str(i)
          /\ rejected = {} => decision.reason[1] \notin PathReasons

\* deny = ["logs/secret"], allow = ["logs/"], touched path
\* "logs/secret/x.json": under both prefixes, denied, the reason names it
C10_Witness ==
  /\ Enforced
  /\ policy_.writable_deny_prefixes = <<LogsSecret>>
  /\ policy_.writable_allow_prefixes = <<LogsDir>>
  /\ request.touched_files = << LogsSecret \o <<"/", "x", ".", "j", "s", "o", "n">> >>
  /\ MatchesDeny(request.touched_files[1])
  /\ MatchesAllow(request.touched_files[1])
  /\ ~decision.allowed
  /\ decision.reason = <<"write denied for path: ">> \o request.touched_files[1]

NetworkReasons == {"domain not allowed: ", "port not allowed: "}
ResourceReasons == {"cpu request exceeds max policy",
                    "ram request exceeds max policy",
                    "runtime request exceeds max policy"}
BreakerReasons == {"autonomy disabled by local emergency switch",
                   "circuit breaker open: too many failed deployments",
                   "circuit breaker open: regression threshold exceeded"}

\* the four checks, each taken alone on the request and the policy in force
PathsPass(stdlib) ==
  \A i \in DOMAIN request.touched_files :
    LET str == generic_string(request.touched_files[i], stdlib)
    IN  ~MatchesDeny(str) /\ MatchesAllow(str)

NetworkPasses ==
  \/ request.outbound_domain = <<>>
  \/ /\ request.outbound_domain[1] \in Range(policy_.allowed_domains)
     /\ request.outbound_port \in Range(policy_.allowed_ports)

ResourcesPass ==
  /\ request.requested_cpu_percent <= policy_.limits.max_cpu_percent
  /\ request.requested_ram_mb <= policy_.limits.max_ram_mb
  /\ request.requested_runtime_seconds <= policy_.limits.max_time_seconds

MarkerPresent ==
  /\ policy_.circuit_breakers.emergency_disable_file # ""
  /\ policy_.circuit_breakers.emergency_disable_file \in files

BreakerClosed ==
  /\ ~MarkerPresent
  /\ CountRecentFailedDeployments(auditLog) < policy_.circuit_breakers.max_failed_deployments
  /\ request.regression_score <= policy_.circuit_breakers.max_regression_threshold

\* C11: the checks run in the order path, network, resources, circuit
\* breaker and the decision carries the reason of the first one that fails,
\* whatever later checks would have said; the request is allowed, with the
\* reason "allowed", exactly when all four pass.
C11_FirstFailingCheckWins ==
  Enforced =>
    \E stdlib \in StdLibs :
      /\ decision.allowed <=>
           PathsPass(stdlib) /\ NetworkPasses /\ ResourcesPass /\ BreakerClosed
      /\ decision.allowed => decision.reason = <<"allowed">>
      /\ ~PathsPass(stdlib) =>
           LET str(i) == generic_string(request.touched_files[i], stdlib)
               rejected == {i \in DOMAIN request.touched_files :
                              MatchesDeny(str(i)) \/ ~MatchesAllow(str(i))}
           IN  /\ decision.reason[1] \in PathReasons
               /\ \E i \in rejected : /\ \A j \in rejected : i <= j
                                      /\ Tail(decision.reason) = str(i)
      /\ PathsPass(stdlib) /\ ~NetworkPasses => decision.reason[1] \in NetworkReasons
      /\ PathsPass(stdlib) /\ NetworkPasses /\ ~ResourcesPass =>
           decision.reason[1] \in ResourceReasons
      /\ PathsPass(stdlib) /\ NetworkPasses /\ ResourcesPass /\ ~BreakerClosed =>
           decision.reason[1] \in BreakerReasons

\* a request that fails the network, the resource and the breaker check at
\* once is denied for its domain
C11_Witness ==
  /\ Enforced
  /\ PathsPass("libstdc++")
  /\ request.touched_files # <<>>
  /\ ~NetworkPasses
  /\ ~ResourcesPass
  /\ ~BreakerClosed
  /\ decision = [allowed |-> FALSE,
                 reason |-> <<"domain not allowed: ", request.outbound_domain[1]>>]

\* the items the policy source lists under "domains:", as written
DomainItems(file) ==
  LET domains == CHOOSE k \in DOMAIN file.lines : file.lines[k] = <<"domains:">>
      ports == CHOOSE k \in DOMAIN file.lines : file.lines[k] = <<"ports:">>
  IN  {file.lines[k][2] : k \in (domains + 1)..(ports - 1)}

WildcardListed == DomainItems(policyFile) \cap {"\"*\"", "*"} # {}

PathsPassOnEveryBuild == \A stdlib \in StdLibs : PathsPass(stdlib)

\* C12: for a request whose paths pass, the network check lets a request
\* without outbound domain through whatever its port; with a domain, it denies
\* with "domain not allowed: <domain>" unless the domain equals an entry of
\* the allowed-domain list, the port not mattering then; then with "port not
\* allowed: <port>" unless the port is in the allowed-port list; and a policy
\* source that lists a wildcard still denies every domain it does not list
\* literally.
C12_NetworkCheck ==
  Enforced =>
    LET domain == request.outbound_domain
        listed == domain # <<>> /\ domain[1] \in Range(policy_.allowed_domains)
    IN  /\ PathsPassOnEveryBuild =>
             /\ domain = <<>> => decision.reason[1] \notin NetworkReasons
             /\ domain # <<>> /\ ~listed =>
                  decision = [allowed |-> FALSE,
                              reason |-> <<"domain not allowed: ", domain[1]>>]
             /\ listed /\ request.outbound_port \notin Range(policy_.allowed_ports) =>
                  /\ ~decision.allowed
                  /\ decision.reason[1] = "port not allowed: "
                  /\ stoi(Tail(decision.reason)) = [ok |-> TRUE, value |-> request.outbound_port]
             /\ listed /\ request.outbound_port \in Range(policy_.allowed_ports) =>
                  decision.reason[1] \notin NetworkReasons
        /\ WildcardListed /\ domain # <<>> /\ domain[1] \notin DomainItems(policyFile) =>
             ~decision.allowed

\* the source lists the quoted wildcard; a request for a domain it does not
\* name is denied for that domain
C12_Witness ==
  /\ Enforced
  /\ "\"*\"" \in DomainItems(policyFile)
  /\ request.touched_files = <<>>
  /\ request.outbound_domain = <<"evil.example.com">>
  /\ request.outbound_port \in Range(policy_.allowed_ports)
  /\ decision = [allowed |-> FALSE,
                 reason |-> <<"domain not allowed: ", "evil.example.com">>]


\* C15: while the emergency-disable marker named by the policy exists, every
\* call is denied, whatever the request, the ledger and the regression score;
\* and when the path, network and resource checks pass, the reason is the
\* emergency switch, also when the failed-deployment count has reached the
\* maximum or the regression score is above the threshold.
C15_EmergencyMarkerDenies ==
  Enforced /\ MarkerPresent =>
    /\ ~decision.allowed
    /\ PathsPassOnEveryBuild /\ NetworkPasses /\ ResourcesPass =>
         decision.reason = <<"autonomy disabled by local emergency switch">>

\* the marker exists, the ledger holds as many failed deployments as the
\* policy tolerates and the regression score is above the threshold: the
\* reason is the emergency switch
C15_Witness ==
  /\ Enforced
  /\ MarkerPresent
  /\ PathsPassOnEveryBuild /\ NetworkPasses /\ ResourcesPass
  /\ CountRecentFailedDeployments(auditLog) >= policy_.circuit_breakers.max_failed_deployments
  /\ request.regression_score > policy_.circuit_breakers.max_regression_threshold
  /\ decision = [allowed |-> FALSE,
                 reason |-> <<"autonomy disabled by local emergency switch">>]

\* the entries a RecordApplied call writes, by the success it was given
AppliedEntries(success) ==
  {AuditLine(timestamp, "applied", change_id,
             << <<"success", IF success THEN <<"true">> ELSE <<"false">>>>,
                <<"summary", summary>> >>) :
     timestamp \in Timestamps, change_id \in ChangeIds, summary \in Texts}

\* the number of applied ledger entries with success=false
FailedApplied(log) == Cardinality({i \in DOMAIN log : log[i] \in AppliedEntries(FALSE)})

\* C13: with the emergency marker absent and the regression score not above
\* the threshold, a request that passes the path, network and resource checks
\* is allowed while the number of applied ledger entries with success=false
\* is below max_failed_deployments, and is denied with the reason "too many
\* failed deployments" once that number has reached it.
C13_FailedDeploymentThreshold ==
  /\ Enforced
  /\ ~MarkerPresent
  /\ request.regression_score <= policy_.circuit_breakers.max_regression_threshold
  /\ PathsPassOnEveryBuild /\ NetworkPasses /\ ResourcesPass
  => IF FailedApplied(auditLog) < policy_.circuit_breakers.max_failed_deployments
       THEN decision = [allowed |-> TRUE, reason |-> <<"allowed">>]
       ELSE decision = [allowed |-> FALSE,
                        reason |-> <<"circuit breaker open: too many failed deployments">>]

\* C14: the breaker keeps no state between checks. After earlier calls were
\* denied for the emergency marker or for a regression score above the
\* threshold, a call made with the marker removed, a regression score not
\* above the threshold and a failed-deployment count below the maximum (and
\* passing the path, network and resource checks) is allowed.
C14_BreakerNotSticky ==
  /\ Enforced
  /\ denials \cap {"autonomy disabled by local emergency switch",
                   "circuit breaker open: regression threshold exceeded"} # {}
  /\ ~MarkerPresent
  /\ request.regression_score <= policy_.circuit_breakers.max_regression_threshold
  /\ CountRecentFailedDeployments(auditLog) < policy_.circuit_breakers.max_failed_deployments
  /\ PathsPassOnEveryBuild /\ NetworkPasses /\ ResourcesPass
  => decision = [allowed |-> TRUE, reason |-> <<"allowed">>]

\* allowed after a denial for the marker and a denial for the regression
\* score, with an entry recorded in between
C14_Witness ==
  /\ Enforced
  /\ decision.allowed
  /\ "autonomy disabled by local emergency switch" \in denials
  /\ "circuit breaker open: regression threshold exceeded" \in denials
  /\ policy_.circuit_breakers.emergency_disable_file # ""
  /\ auditLog # <<>>

\* C16: the ledger is append-only. A RecordProposed, RecordApplied or
\* RecordReverted call that returns to its caller has appended exactly one
\* entry at the end, the entries written before keep their content and order,
\* and a step of any other operation leaves the ledger as it was.
C16_AppendOnly ==
  [][
      /\ \E k \in 0..1 : /\ Len(auditLog') = Len(auditLog) + k
                         /\ SubSeq(auditLog', 1, Len(auditLog)) = auditLog
      /\ recorded' # NoRecord /\ recorded'.outcome = "returned" =>
           Len(auditLog') = Len(auditLog) + 1
      /\ recorded' = NoRecord => auditLog' = auditLog
    ]_vars

RecentReturned == recent # NoRecent

\* C17: for a ledger of n entries (the lines of the ledger file) and a limit
\* >= 0, RecentEntries(limit) returns min(limit, n) entries, the i-th of them
\* read from the i-th of the last min(limit, n) lines and carrying that
\* line's timestamp, action and change_id; the whole ledger when n <= limit.
C17_RecentEntries ==
  RecentReturned =>
    LET n == Len(auditLog)
        k == IF recent.limit < n THEN recent.limit ELSE n
        line(i) == auditLog[n - k + i]
    IN  /\ Len(recent.entries) = k
        /\ \A i \in 1..k :
             /\ recent.entries[i] = AuditEntry(line(i))
             /\ recent.entries[i].timestamp = <<line(i)[7]>>
             /\ recent.entries[i].action = <<line(i)[15]>>
             /\ recent.entries[i].change_id = <<line(i)[23]>>
        /\ n <= recent.limit =>
             recent.entries = [i \in 1..n |-> AuditEntry(auditLog[i])]

\* two entries of different actions in the ledger, limit 1: the second one
C17_Witness ==
  /\ RecentReturned
  /\ recent.limit = 1
  /\ Len(auditLog) = 2
  /\ auditLog[1][15] # auditLog[2][15]
  /\ recent.entries = <<AuditEntry(auditLog[2])>>

\* C20: a RecordProposed, RecordApplied or RecordReverted call that could not
\* write its entry does not return normally: the caller is told, here by the
\* exception, the one channel a void method has.
C20_WriteFailureEscalated ==
  recorded # NoRecord /\ ~recorded.written => recorded.outcome = "threw"

ReloadReturned == reload.pc = "returned"

\* C18: a ReloadPolicy call that fails, on an unreadable source or on one it
\* cannot parse, returns false and leaves policy_ exactly as it was before
\* the call.
C18_FailedReloadKeepsPolicy ==
  ReloadReturned /\ reload.outcome # "true" =>
    /\ reload.outcome = "false"
    /\ policy_ = reload.before

\* C19: a call that has returned while, before or after a ReloadPolicy that
\* returned true made all its checks against one policy, the one before the
\* reload or the one after it.
C19_OnePolicyVersion ==
  Enforced /\ ReloadReturned /\ reload.outcome = "true" =>
    \E version \in {reload.before, policy_}, stdlib \in StdLibs :
      decision = EnforceBeforePatchDeployment(version, request, auditLog, files, stdlib)

(***************************************************************************)
(* Claims about the control plane's handlers.                              *)
(***************************************************************************)

PutEvents == {i \in DOMAIN events : events[i].op = "putChangeSet"}

\* C21: transitions on the stored change-set of one change_id are serialized:
\* every write back replaces the very value its request read (no other
\* request wrote in between), and a request that has read a change-set holds
\* the event loop until it has written, so the stored value is the result of
\* the transitions applied one after the other.
C21_TransitionsSerialized ==
  /\ \A i \in PutEvents : events[i].read = events[i].overwritten
  /\ \A rq \in DOMAIN inflight.calls :
       inflight.calls[rq].pc = "got" =>
         /\ inflight.loop = rq
         /\ inflight.calls[rq].existing = store.changeSets[inflight.calls[rq].changeId]

\* two promote requests for one change_id were in flight at once, and both
\* have written
C21_Witness ==
  \E i, j \in PutEvents :
    /\ i < j
    /\ events[i].route = "promote" /\ events[j].route = "promote"
    /\ events[i].changeId = events[j].changeId
    /\ events[i].rq > events[j].rq
    /\ events[j].read = events[i].written

Stored == {id \in StoreIds : store.changeSets[id] # NoChangeSet}

\* the change_id as the ledger would carry it
LedgerChangeId(id) == <<"chg-">> \o to_string(id)

\* C23: once the stored change-set of a change_id is rolled back or promoted,
\* the audit ledger holds an entry for that change_id.
C23_OutcomesRecorded ==
  \A id \in Stored :
    store.changeSets[id].promotion_state \in TerminalStates =>
      \E i \in DOMAIN auditLog : ExtractField(auditLog[i], "change_id") = LedgerChangeId(id)

\* C30: every change-set the deployment endpoints have stored is canary
\* evaluated: canary_result is passed or failed, promotion_state is
\* progressive, promoted or rolled_back, failed goes with rolled_back, and a
\* promoted one has risk_score < 0.80 and was written by a promote request
\* for its change_id.
C30_StoredAreCanaryEvaluated ==
  \A id \in Stored :
    LET cs == store.changeSets[id] IN
    /\ cs.canary_result \in {"passed", "failed"}
    /\ cs.promotion_state \in {"progressive", "promoted", "rolled_back"}
    /\ cs.canary_result = "failed" => cs.promotion_state = "rolled_back"
    /\ cs.promotion_state = "promoted" =>
         /\ cs.risk_score < CanaryRiskLimit
         /\ \E i \in PutEvents : /\ events[i].route = "promote"
                                 /\ events[i].changeId = id
                                 /\ events[i].written = cs

\* the store holds a promoted change-set next to one that failed its canary
C30_Witness ==
  \E id, other \in Stored :
    /\ store.changeSets[id].promotion_state = "promoted"
    /\ store.changeSets[other].canary_result = "failed"

\* C22: a reader that runs while Record* calls append never observes a
\* partially written entry, and two appends never interleave inside one
\* record: every line of the ledger file is, at every moment, one whole
\* record, and every entry RecentEntries returns is read from a whole record.
C22_NoPartialEntry ==
  /\ \A i \in DOMAIN auditLog : auditLog[i] \in RecordLines
  /\ RecentReturned =>
       \A i \in DOMAIN recent.entries :
         recent.entries[i] \in {AuditEntry(line) : line \in RecordLines}

TooManyFailed == "circuit breaker open: too many failed deployments"

\* C24: with the policy unchanged and the ledger modified only by the Record*
\* methods, the failed-deployment count EnforceBeforePatchDeployment sees
\* never falls back below the maximum: once a call has been denied for too
\* many failed deployments the count stays at or above max_failed_deployments
\* and every later call is denied too.
C24_FailedCountMonotone ==
  TooManyFailed \in denials =>
    /\ CountRecentFailedDeployments(auditLog) >=
         policy_.circuit_breakers.max_failed_deployments
    /\ Enforced => ~decision.allowed

\* a call denied for too many failed deployments on a ledger whose last
\* entry, recorded after the failure, is not a failed deployment
C24_Witness ==
  /\ Enforced
  /\ decision.reason = <<TooManyFailed>>
  /\ Len(auditLog) = MaxEntries
  /\ CountRecentFailedDeployments(auditLog) = 1
  /\ ~Find(auditLog[Len(auditLog)], Member("action", <<"applied">>))

\* the call just made was RecordApplied(change_id, summary, false)
FailedAppliedCall(call) ==
  /\ call # NoRecord
  /\ call.op = "RecordApplied"
  /\ call.fields[1] = <<"success", <<"false">>>>

\* C25: CountRecentFailedDeployments equals the number of RecordApplied calls
\* made with success=false, whatever the change_id, summary and reason texts
\* of the Record* calls: it starts at 0 on the empty ledger, a
\* RecordApplied(.., false) call raises it by one and no other step changes it.
C25_CountIsFailedAppliedCalls ==
  [][
      CountRecentFailedDeployments(auditLog') =
        CountRecentFailedDeployments(auditLog)
          + (IF FailedAppliedCall(recorded') THEN 1 ELSE 0)
  ]_vars

\* the ids named by the claim, in its order, that are not asserted
RECURSIVE NotAsserted(_)
NotAsserted(ids) ==
  IF ids = <<>> THEN <<>>
  ELSE (IF Head(ids) \in AssertedIds THEN <<>> ELSE <<Head(ids)>>) \o NotAsserted(Tail(ids))

\* C26: violated_constraints is exactly the list of the non-negotiable ids
\* that asserted_constraint_ids does not contain, in the order
\* safety.no_save_corruption, product.no_pay_to_win_drift,
\* fairness.no_hidden_nerfs; the order of the asserted ids, duplicates and
\* unknown ids change nothing, and the list is empty exactly when all three
\* ids are asserted.
C26_ViolatedConstraints ==
  Simulated =>
    /\ simResult.violated_constraints =
         NotAsserted(<< "safety.no_save_corruption", "product.no_pay_to_win_drift",
                        "fairness.no_hidden_nerfs" >>)
    /\ simResult.violated_constraints = <<>> <=>
         {"safety.no_save_corruption", "product.no_pay_to_win_drift",
          "fairness.no_hidden_nerfs"} \subseteq AssertedIds

\* two ids asserted out of order, one of them twice, with an unknown id: the
\* one violation is the id left out
C26_Witness ==
  /\ Simulated
  /\ simInput.policy_patch.asserted_constraint_ids =
       << "fairness.no_hidden_nerfs", "extra.unlisted_constraint",
          "fairness.no_hidden_nerfs", "safety.no_save_corruption" >>
  /\ simResult.violated_constraints = << "product.no_pay_to_win_drift" >>

BlockerTexts == {Head(simResult.blockers[i]) : i \in 1..Len(simResult.blockers)}

\* C27: the blockers agree with the scores reported in the same result:
\* "projected score below minimum release threshold" is a blocker exactly
\* when the reported patch_score is below 0.7, and "patch regresses simulated
\* composite score" exactly when the reported projected_delta is below 0.
C27_BlockersAgreeWithReported ==
  Simulated =>
    /\ "projected score below minimum release threshold" \in BlockerTexts
         <=> simResult.patch_score < MINIMUM_RELEASE_THRESHOLD
    /\ "patch regresses simulated composite score" \in BlockerTexts
         <=> simResult.projected_delta < 0

\* 0.7 in the unit of the composites before rounding
ReleaseThresholdComposite == MINIMUM_RELEASE_THRESHOLD * (CompositeUnit \div TenThousand)

\* C27 as amended: "projected score below minimum release threshold" is a
\* blocker exactly when the patch composite before rounding is below 0.7: it
\* is present whenever the reported patch_score is below 0.7, and when it is
\* present the reported patch_score is at most 0.7 (0.7000 is reported for a
\* composite from 0.69995 up to 0.7).  "patch regresses simulated composite
\* score" is a blocker exactly when the reported projected_delta is below 0.
C27_BlockersFollowComposite ==
  Simulated =>
    /\ PatchComposite < ReleaseThresholdComposite =>
         "projected score below minimum release threshold" \in BlockerTexts
    /\ "projected score below minimum release threshold" \in BlockerTexts =>
         /\ PatchComposite <= ReleaseThresholdComposite
         /\ simResult.patch_score <= MINIMUM_RELEASE_THRESHOLD
    /\ simResult.patch_score < MINIMUM_RELEASE_THRESHOLD =>
         "projected score below minimum release threshold" \in BlockerTexts
    /\ "patch regresses simulated composite score" \in BlockerTexts
         <=> simResult.projected_delta < 0

\* a composite of 0.699995: reported as 0.7000 and blocked
C27_Witness ==
  /\ Simulated
  /\ PatchComposite < ReleaseThresholdComposite
  /\ simResult.patch_score = MINIMUM_RELEASE_THRESHOLD
  /\ "projected score below minimum release threshold" \in BlockerTexts

ExecuteCalls == {rq \in DOMAIN inflight.calls : inflight.calls[rq].route = "execute"}

\* the policy of the call breaks a guardrail: a runtime above 7200 seconds or
\* no tool allowed
BreaksGuardrail(policy) ==
  \/ policy.resource_limits.max_runtime_seconds > 7200
  \/ policy.tool_allowances = <<>>

\* an earlier request stored the agent the call is for
AgentStoredBefore(rq) ==
  \E i \in DOMAIN events : /\ events[i].op = "putAgent"
                           /\ events[i].rq < rq
                           /\ events[i].agentId = inflight.calls[rq].agentId

\* C28: in POST /v1/agents/:agentId/execute the policy check precedes every
\* effect.  enforcePolicy denies a policy whose max_runtime_seconds exceeds
\* 7200 or whose tool_allowances is empty, with a reason for each rule that
\* failed; a call with such a policy never dispatches to the runtime plane
\* and never appends to the agent's memory, and when it is for a stored agent
\* and its body passes the schema it is answered 422 with those reasons.
C28_PolicyCheckPrecedesEffects ==
  \A rq \in ExecuteCalls :
    LET call == inflight.calls[rq]
        policy == call.body.policy
        expected ==
          (IF policy.resource_limits.max_runtime_seconds > 7200
             THEN <<"max_runtime_seconds exceeds guardrail limit">> ELSE <<>>)
          \o (IF policy.tool_allowances = <<>>
                THEN <<"at least one tool must be allowed">> ELSE <<>>)
    IN  BreaksGuardrail(policy) =>
          /\ ~enforcePolicy(policy).allowed
          /\ enforcePolicy(policy).reasons = expected
          /\ call.pc = "answered"
          /\ call.status \in {404, 400, 422}
          /\ AgentStoredBefore(rq) /\ AgentExecuteSchema(call.body) =>
               call.status = 422 /\ call.reasons = expected
          /\ \A i \in DOMAIN events : events[i].rq # rq

\* a call whose policy breaks both guardrails is answered 422 with both
\* reasons, after a call for the same agent was dispatched and appended to
\* the agent's memory
C28_Witness ==
  \E rq, other \in ExecuteCalls :
    /\ other < rq
    /\ inflight.calls[rq].agentId = inflight.calls[other].agentId
    /\ inflight.calls[rq].pc = "answered"
    /\ inflight.calls[other].pc = "answered"
    /\ inflight.calls[rq].status = 422
    /\ Len(inflight.calls[rq].reasons) = 2
    /\ inflight.calls[other].status = 200
    /\ Len(store.memories[inflight.calls[rq].agentId]) = 2

\* C29: a guard that has never loaded a policy (its source could not be
\* opened at construction and every ReloadPolicy call since returned false)
\* fails closed: every request with at least one touched path and every
\* request with an outbound domain is denied.
C29_UnloadedGuardFailsClosed ==
  /\ Enforced
  /\ ~Loaded
  /\ request.touched_files # <<>> \/ request.outbound_domain # <<>>
  => ~decision.allowed

\* after a ReloadPolicy call that returned false, a write under logs/ is denied
C29_Witness ==
  /\ Enforced
  /\ reload # NoReload
  /\ reload.outcome = "false"
  /\ ~reload.loaded
  /\ request.touched_files = <<LogsDir \o <<"a", ".", "l", "o", "g">>>>
  /\ decision = [allowed |-> FALSE,
                 reason |-> <<"write outside allowed scope: ">> \o request.touched_files[1]]

=========================================================================
